---- MODULE Spec2Model ----
EXTENDS Integers, Sequences, FiniteSets, TLC

(***************************************************************************)
(* go-erdos, MSSQL dump driver (internal/db).                              *)
(*                                                                         *)
(* Strings are sequences of one-character strings, so that formatting and  *)
(* parsing of object names are computed character by character.            *)
(***************************************************************************)

VARIABLES
    pc,            \* position of the calling goroutine
    depRows,       \* result set of the dependency query, in the order returned
    rowIdx,        \* cursor into depRows (rows.Next)
    tableList,     \* result set of tableListQuery: set of <<schema, table>>
    deps,          \* DependencyTree: TableName -> sequence of parent TableNames
    sortInput,     \* the DependencyTree as it was handed to the sorter
    tableDegree,   \* sortTablesByDependencies: tableDegree
    queue,         \* sortTablesByDependencies: queue
    sorted,        \* sortTablesByDependencies: sorted
    totalLenght,   \* sortTablesByDependencies: totalLenght
    sortedTables,  \* list returned by sortTablesByDependencies
    sortErr,       \* error returned by sortTablesByDependencies
    schemas,       \* DumpSchema: schemas already known to exist
    builder,       \* DumpSchema: statements written so far
    emitIdx,       \* DumpSchema: index into sortedTables
    schemaOut,     \* DumpSchema: returned script
    schemaErr,     \* DumpSchema: returned error
    tables,        \* DumpData: tables, the list read from tableListQuery
    skip,          \* DumpData: skip, bare names whose data is not dumped
    mappings,      \* DumpData: mappings, TableName -> column definitions
    rowLimit,      \* most rows a cursor delivers
    spawned,       \* DumpData: goroutines started by the loop of line 145
    wg,            \* DumpData: wg, the WaitGroup counter
    mu,            \* DumpData: mu, 0 when free, else the task holding it
    result,        \* DumpData: result, the shared strings.Builder
    progressCh,    \* DumpData: progressCh, buffered
    errChan,       \* DumpData: errChan, buffered
    chClosed,      \* which of the two channels are closed
    errLog,        \* every error sent on errChan, in send order
    processed,     \* progress goroutine: processed
    reporter,      \* progress goroutine: "running" or "done"
    tpc,           \* per task: position in the goroutine of lines 147-169
    deadline,      \* per task: state of the timer of ctxCycle
    queried,       \* per task: db.QueryContext was called for the table
    scanned,       \* per task: rows delivered by the cursor
    batchCount,    \* per task: dumpTableData batchCount
    insertValues,  \* per task: dumpTableData insertValues
    insertStmt,    \* per task: dumpTableData insertStmtBuilder
    dump,          \* per task: the block dumpTableData returned
    terr,          \* per task: the error dumpTableData returned
    wpos,          \* per task: how much of dump result.WriteString has copied
    dataOut,       \* DumpData: returned string
    dataErr        \* DumpData: returned error

schemaVars == <<depRows, rowIdx, tableList, deps, sortInput, tableDegree, queue,
                sorted, totalLenght, sortedTables, sortErr, schemas, builder,
                emitIdx, schemaOut, schemaErr>>

dataVars == <<tables, skip, mappings, rowLimit, spawned, wg, mu, result, progressCh,
              errChan, chClosed, errLog, processed, reporter, tpc, deadline, queried,
              scanned, batchCount, insertValues, insertStmt, dump, terr, wpos,
              dataOut, dataErr>>

\* the dump command: its flags, the stages it has called, what they returned,
\* the script being assembled, the output file, what was logged, the exit status
VARIABLES connStr, dbType, calls, schemaStr, dataStr, constraintsStr, dumpScript,
          outputFile, logged, exitCode, handleErr

\* the dump command: the values of --include, --skip and --skip-data, and the
\* dumpOptions built from them
VARIABLES flags, options

cmdVars == <<connStr, dbType, calls, schemaStr, dataStr, constraintsStr, dumpScript,
             outputFile, logged, exitCode, handleErr, flags, options>>

\* DumpConstraints: the rows of its two queries, how far they have been read,
\* the two maps, the text built and what is returned
VARIABLES pkRows, pkIdx, pkMap, fkRows, fkIdx, fkMap, consBuilder, consOut, consErr

consVars == <<pkRows, pkIdx, pkMap, fkRows, fkIdx, fkMap, consBuilder, consOut, consErr>>

\* getTableMappings: the rows of its query, how far they have been read, the
\* map it builds; a value and its rendering; a column and its type text
VARIABLES colRows, colIdx, tableMap, mapErr, valColInfo, val, valueStr, cd, colType

\* dumpTableData: the values scanned from one row and their rendering
VARIABLES values, valueStrs

rowVars == <<values, valueStrs>>

fnVars == <<colRows, colIdx, tableMap, mapErr, valColInfo, val, valueStr, cd, colType, rowVars>>

\* what DumpSchema, the sorter and DumpData leave alone
auxVars == <<cmdVars, consVars, fnVars>>

\* what the dump command leaves alone
outsideCmd == <<schemaVars, dataVars, consVars, fnVars>>

\* what DumpConstraints leaves alone
outsideCons == <<schemaVars, dataVars, cmdVars, fnVars>>

\* what getTableMappings and the formatting functions leave alone
outsideFn == <<schemaVars, dataVars, cmdVars, consVars>>

vars == <<pc, schemaVars, dataVars, auxVars>>

----------------------------------------------------------------------------
(* Bounds of the model *)

MaxFks == 2          \* foreign-key tuples in the catalog
MaxNullRows == 1     \* dependency rows whose child side is NULL
MaxDeps == 2         \* length of a dependency list handed to the sorter
MaxRows == 1         \* rows per table when several tables are dumped concurrently
MaxRowsOneTable == 120   \* rows of the table when one table is dumped
MaxPkCols == 3       \* columns of a primary key
MaxFkCols == 2       \* columns of a foreign key
MaxCols == 2         \* columns of a table in the column-metadata query
MaxValueLen == 3     \* characters of a text or byte value

----------------------------------------------------------------------------
(* Strings *)

DBO == <<"d", "b", "o">>
SYS == <<"s", "y", "s">>
INFORMATION_SCHEMA ==
    <<"I", "N", "F", "O", "R", "M", "A", "T", "I", "O", "N", "_", "S", "C", "H", "E", "M", "A">>

ErrMigrateProcess == "ErrMigrateProcess"

\* apperrors.New(code, "... for table <table>", err)
AppError(code, table) == [code |-> code, table |-> table]

NoErr == AppError("nil", <<>>)
ErrWrapped == AppError("wrapped", <<>>)

RECURSIVE Join(_, _)
Join(parts, sep) ==
    IF parts = <<>> THEN <<>>
    ELSE IF Len(parts) = 1 THEN parts[1]
    ELSE parts[1] \o sep \o Join(Tail(parts), sep)

FormatObjectName(parts) ==
    Join([i \in 1..Len(parts) |-> <<"[">> \o parts[i] \o <<"]">>], <<".">>)

NewTableName(schema, table) ==
    FormatObjectName(<<IF schema = <<>> THEN DBO ELSE schema, table>>)

\* position of the first "]" of t, 0 when there is none
FirstClose(t) ==
    IF \E i \in 1..Len(t) : t[i] = "]"
    THEN CHOOSE i \in 1..Len(t) : t[i] = "]" /\ \A j \in 1..(i - 1) : t[j] # "]"
    ELSE 0

\* ^\[([^]]+)\]\.\[([^]]+)\]$
GetParts(t) ==
    LET i == FirstClose(t)
        n == Len(t)
    IN IF /\ i >= 3
          /\ t[1] = "["
          /\ n >= i + 4
          /\ t[i + 1] = "."
          /\ t[i + 2] = "["
          /\ t[n] = "]"
          /\ \A j \in (i + 3)..(n - 1) : t[j] # "]"
       THEN <<SubSeq(t, 2, i - 1), SubSeq(t, i + 3, n - 1)>>
       ELSE <<<<>>, <<>>>>

RECURSIVE TrimLeft(_)
TrimLeft(s) == IF s # <<>> /\ Head(s) = " " THEN TrimLeft(Tail(s)) ELSE s

RECURSIVE TrimRight(_)
TrimRight(s) ==
    IF s # <<>> /\ s[Len(s)] = " " THEN TrimRight(SubSeq(s, 1, Len(s) - 1)) ELSE s

TrimSpace(s) == TrimRight(TrimLeft(s))

IsEmpty(t) == TrimSpace(GetParts(t)[2]) = <<>>

Contains(list, x) == \E i \in 1..Len(list) : list[i] = x

Perms(S) == {f \in [1..Cardinality(S) -> S] : \A i, j \in 1..Cardinality(S) : f[i] = f[j] => i = j}

SeqsUpTo(S, n) == UNION {[1..k -> S] : k \in 0..n}

Get(m, k) == IF k \in DOMAIN m THEN m[k] ELSE <<>>

Put(m, k, v) == [x \in (DOMAIN m) \cup {k} |-> IF x = k THEN v ELSE m[x]]

EmptyMap == [x \in {} |-> <<>>]

----------------------------------------------------------------------------
(* The catalog *)

SchemaX == <<"x">>
NameA == <<"a">>
NameB == <<"b">>
NameBracket == <<"a", "]">>

\* base tables whose names are regular identifiers
Catalog == {<<DBO, NameA>>, <<DBO, NameB>>, <<SchemaX, NameA>>}

\* a base table whose name holds a closing bracket
BracketTable == <<DBO, NameBracket>>

SchemaY == <<"y">>

\* a base table whose name holds a closing bracket, alone in its schema
BracketTableY == <<SchemaY, NameBracket>>

Alphabet == <<" ", ".", "[", "]", "a", "b", "d", "o", "s", "x", "y">>

CharRank(c) == CHOOSE i \in 1..Len(Alphabet) : Alphabet[i] = c

RECURSIVE StrLeq(_, _)
StrLeq(s, t) ==
    IF s = <<>> THEN TRUE
    ELSE IF t = <<>> THEN FALSE
    ELSE IF Head(s) = Head(t) THEN StrLeq(Tail(s), Tail(t))
    ELSE CharRank(Head(s)) < CharRank(Head(t))

NullString == [valid |-> FALSE, str |-> <<>>]
ValidString(s) == [valid |-> TRUE, str |-> s]

FkRow(child, parent) ==
    [childSchema |-> ValidString(child[1]), child |-> ValidString(child[2]),
     parentSchema |-> parent[1], parent |-> parent[2]]

NullChildRow(parent) ==
    [childSchema |-> NullString, child |-> NullString,
     parentSchema |-> parent[1], parent |-> parent[2]]

\* the child table names of the catalog in ascending order
ChildNamesAscending ==
    LET names == {t[2] : t \in Catalog}
    IN CHOOSE s \in Perms(names) : \A i, j \in 1..Len(s) : i < j => StrLeq(s[i], s[j])

RowsOfChild(fks, name) == {FkRow(e[1], e[2]) : e \in {f \in fks : f[1][2] = name}}

\* ORDER BY fk.TABLE_NAME ASC: rows of equal child name come in any order
RECURSIVE OrderedByChild(_, _)
OrderedByChild(fks, names) ==
    IF names = <<>> THEN {<<>>}
    ELSE {first \o rest : first \in Perms(RowsOfChild(fks, Head(names))),
                          rest \in OrderedByChild(fks, Tail(names))}

\* the result sets mssqlqQeryAnalyzeDependencies can return (SELECT DISTINCT;
\* the rows without a child have a NULL child name, which sorts first)
DependencyResultSets ==
    UNION {
        {nullRows \o childRows : nullRows \in Perms({NullChildRow(p) : p \in nulls}),
                              childRows \in OrderedByChild(fks, ChildNamesAscending)} :
        fks \in {F \in SUBSET (Catalog \X Catalog) : Cardinality(F) <= MaxFks},
        nulls \in {N \in SUBSET Catalog : Cardinality(N) <= MaxNullRows}}

----------------------------------------------------------------------------
(* DumpData: the state left alone by DumpSchema, and the reverse *)

DataIdle ==
    /\ tables = <<>> /\ skip = <<>> /\ mappings = EmptyMap /\ rowLimit = 0
    /\ spawned = 0 /\ wg = 0 /\ mu = 0 /\ result = <<>>
    /\ progressCh = <<>> /\ errChan = <<>> /\ chClosed = {} /\ errLog = <<>>
    /\ processed = 0 /\ reporter = "done"
    /\ tpc = <<>> /\ deadline = <<>> /\ queried = <<>> /\ scanned = <<>>
    /\ batchCount = <<>> /\ insertValues = <<>> /\ insertStmt = <<>>
    /\ dump = <<>> /\ terr = <<>> /\ wpos = <<>>
    /\ dataOut = <<>> /\ dataErr = NoErr

SchemaIdle ==
    /\ depRows = <<>> /\ rowIdx = 1 /\ tableList = {} /\ deps = EmptyMap
    /\ sortInput = EmptyMap /\ tableDegree = EmptyMap /\ queue = <<>>
    /\ sorted = <<>> /\ totalLenght = 0 /\ sortedTables = <<>> /\ sortErr = NoErr
    /\ schemas = <<>> /\ builder = <<>> /\ emitIdx = 0
    /\ schemaOut = <<>> /\ schemaErr = NoErr

\* the output file before the command runs: absent, or holding an older dump
NoFile == [exists |-> FALSE, content |-> <<>>]
OldFile == [exists |-> TRUE, content |-> <<"old dump">>]

CmdIdle ==
    /\ connStr = <<>> /\ dbType = "" /\ calls = <<>>
    /\ schemaStr = <<>> /\ dataStr = <<>> /\ constraintsStr = <<>>
    /\ dumpScript = <<>> /\ outputFile = NoFile /\ logged = <<>>
    /\ exitCode = 0 /\ handleErr = NoErr
    /\ flags = [include |-> "all", skip |-> <<>>, skipData |-> <<>>]
    /\ options = [include |-> "", skipTables |-> <<>>, skipDataTables |-> <<>>]

ConsIdle ==
    /\ pkRows = <<>> /\ pkIdx = 1 /\ pkMap = EmptyMap
    /\ fkRows = <<>> /\ fkIdx = 1 /\ fkMap = EmptyMap
    /\ consBuilder = <<>> /\ consOut = <<>> /\ consErr = NoErr

FnIdle ==
    /\ colRows = <<>> /\ colIdx = 1 /\ tableMap = EmptyMap /\ mapErr = NoErr
    /\ valColInfo = <<>> /\ val = [kind |-> "nil"] /\ valueStr = <<>>
    /\ values = <<>> /\ valueStrs = <<>>
    /\ cd = [dataType |-> <<>>] /\ colType = <<>>

AuxIdle == CmdIdle /\ ConsIdle /\ FnIdle

----------------------------------------------------------------------------
(* analyzeDependencies *)

ScanChild(ns) == IF ns.valid THEN ns.str ELSE <<>>

AppendDependency(d, childName, parentName) ==
    IF ~IsEmpty(childName)
    THEN Put(d, childName, Get(d, childName) \o <<parentName>>)
    ELSE d

RegisterParent(d, parentName) == Put(d, parentName, <<>>)

AnalyzeRow ==
    /\ UNCHANGED <<dataVars, auxVars>>
    /\ pc = "analyze"
    /\ rowIdx <= Len(depRows)
    /\ LET row == depRows[rowIdx]
           childName == NewTableName(ScanChild(row.childSchema), ScanChild(row.child))
           parentName == NewTableName(row.parentSchema, row.parent)
       IN deps' = RegisterParent(AppendDependency(deps, childName, parentName), parentName)
    /\ rowIdx' = rowIdx + 1
    /\ UNCHANGED <<pc, depRows, tableList, sortInput, tableDegree, queue, sorted,
                   totalLenght, sortedTables, sortErr, schemas, builder, emitIdx,
                   schemaOut, schemaErr>>

AnalyzeDone ==
    /\ UNCHANGED <<dataVars, auxVars>>
    /\ pc = "analyze"
    /\ rowIdx > Len(depRows)
    /\ pc' = "tableList"
    /\ UNCHANGED schemaVars

----------------------------------------------------------------------------
(* DumpSchema: the table list *)

AddNoTables(d, list) == d

AddMissingTables(d, list) ==
    [x \in (DOMAIN d) \cup {NewTableName(t[1], t[2]) : t \in list} |-> Get(d, x)]

TableListScan ==
    /\ UNCHANGED <<dataVars, auxVars>>
    /\ pc = "tableList"
    /\ deps' = AddMissingTables(deps, tableList)
    /\ pc' = "sort"
    /\ UNCHANGED <<depRows, rowIdx, tableList, sortInput, tableDegree, queue, sorted,
                   totalLenght, sortedTables, sortErr, schemas, builder, emitIdx,
                   schemaOut, schemaErr>>

----------------------------------------------------------------------------
(* sortTablesByDependencies *)

Degree(parents) == Len(parents)

IsReadyOffByOne(deg) == deg <= 1

IsReady(deg) == deg = 0

DependsOn(parents, table) == Contains(parents, table)

SortResultPartial(list, total) ==
    IF Len(list) # total
    THEN [list |-> list, err |-> AppError(ErrMigrateProcess, <<>>)]
    ELSE [list |-> list, err |-> NoErr]

SortResult(list, total) ==
    IF Len(list) # total
    THEN [list |-> <<>>, err |-> AppError(ErrMigrateProcess, <<>>)]
    ELSE [list |-> list, err |-> NoErr]

\* lines 637-651: the degrees, and the queue seeded in map iteration order
SortBegin ==
    /\ UNCHANGED <<dataVars, auxVars>>
    /\ pc = "sort"
    /\ sortInput' = deps
    /\ tableDegree' = [t \in DOMAIN deps |-> Degree(deps[t])]
    /\ \E order \in Perms({t \in DOMAIN deps : IsReady(Degree(deps[t]))}) :
           queue' = order
    /\ sorted' = <<>>
    /\ totalLenght' = Cardinality(DOMAIN deps)
    /\ pc' = "sortLoop"
    /\ UNCHANGED <<depRows, rowIdx, tableList, deps, sortedTables, sortErr, schemas,
                   builder, emitIdx, schemaOut, schemaErr>>

\* lines 652-672: one iteration; the children are visited in map iteration order
SortLoop ==
    /\ UNCHANGED <<dataVars, auxVars>>
    /\ pc = "sortLoop"
    /\ queue # <<>>
    /\ LET table == Head(queue)
           rest == [t \in (DOMAIN deps) \ {table} |-> deps[t]]
           hit == {child \in DOMAIN rest : DependsOn(rest[child], table)}
           degree == [t \in DOMAIN tableDegree |->
                         IF t \in hit THEN tableDegree[t] - 1 ELSE tableDegree[t]]
       IN /\ sorted' = Append(sorted, table)
          /\ deps' = rest
          /\ tableDegree' = degree
          /\ \E order \in Perms({child \in hit : IsReady(degree[child])}) :
                 queue' = Tail(queue) \o order
    /\ UNCHANGED <<pc, depRows, rowIdx, tableList, sortInput, totalLenght, sortedTables,
                   sortErr, schemas, builder, emitIdx, schemaOut, schemaErr>>

\* lines 674-679
SortReturn ==
    /\ UNCHANGED <<dataVars, auxVars>>
    /\ pc = "sortLoop"
    /\ queue = <<>>
    /\ sortedTables' = SortResult(sorted, totalLenght).list
    /\ sortErr' = SortResult(sorted, totalLenght).err
    /\ pc' = "sorted"
    /\ UNCHANGED <<depRows, rowIdx, tableList, deps, sortInput, tableDegree, queue,
                   sorted, totalLenght, schemas, builder, emitIdx, schemaOut, schemaErr>>

----------------------------------------------------------------------------
(* DumpSchema: after the sort *)

CreateSchema(schema) == [stmt |-> "CREATE SCHEMA", name |-> schema]
CreateTable(table) == [stmt |-> "CREATE TABLE", name |-> table]

\* lines 69-80
SchemaAfterSort ==
    /\ UNCHANGED <<dataVars, auxVars>>
    /\ pc = "sorted"
    /\ IF sortErr # NoErr
       THEN /\ schemaOut' = <<>>
            /\ schemaErr' = ErrWrapped
            /\ pc' = "schemaDone"
            /\ UNCHANGED <<schemas, builder, emitIdx>>
       ELSE /\ builder' = <<>>
            /\ schemas' = <<DBO, SYS, INFORMATION_SCHEMA>>
            /\ emitIdx' = 1
            /\ pc' = "emit"
            /\ UNCHANGED <<schemaOut, schemaErr>>
    /\ UNCHANGED <<depRows, rowIdx, tableList, deps, sortInput, tableDegree, queue,
                   sorted, totalLenght, sortedTables, sortErr>>

\* lines 81-93: one table of the sorted list
EmitTable ==
    /\ UNCHANGED <<dataVars, auxVars>>
    /\ pc = "emit"
    /\ emitIdx <= Len(sortedTables)
    /\ LET table == sortedTables[emitIdx]
           schema == GetParts(table)[1]
       IN IF ~Contains(schemas, schema)
          THEN /\ builder' = builder \o <<CreateSchema(schema), CreateTable(table)>>
               /\ schemas' = Append(schemas, schema)
          ELSE /\ builder' = Append(builder, CreateTable(table))
               /\ schemas' = schemas
    /\ emitIdx' = emitIdx + 1
    /\ UNCHANGED <<pc, depRows, rowIdx, tableList, deps, sortInput, tableDegree, queue,
                   sorted, totalLenght, sortedTables, sortErr, schemaOut, schemaErr>>

EmitDone ==
    /\ UNCHANGED <<dataVars, auxVars>>
    /\ pc = "emit"
    /\ emitIdx > Len(sortedTables)
    /\ schemaOut' = builder
    /\ schemaErr' = NoErr
    /\ pc' = "schemaDone"
    /\ UNCHANGED <<depRows, rowIdx, tableList, deps, sortInput, tableDegree, queue,
                   sorted, totalLenght, sortedTables, sortErr, schemas, builder, emitIdx>>

----------------------------------------------------------------------------
(* Specification of DumpSchema *)

Init ==
    /\ pc = "analyze"
    /\ depRows \in DependencyResultSets
    /\ rowIdx = 1
    /\ tableList \in {Catalog, Catalog \cup {BracketTableY}}
    /\ deps = EmptyMap
    /\ sortInput = EmptyMap
    /\ tableDegree = EmptyMap
    /\ queue = <<>>
    /\ sorted = <<>>
    /\ totalLenght = 0
    /\ sortedTables = <<>>
    /\ sortErr = NoErr
    /\ schemas = <<>>
    /\ builder = <<>>
    /\ emitIdx = 0
    /\ schemaOut = <<>>
    /\ schemaErr = NoErr
    /\ DataIdle
    /\ AuxIdle

Next ==
    \/ AnalyzeRow
    \/ AnalyzeDone
    \/ TableListScan
    \/ SortBegin
    \/ SortLoop
    \/ SortReturn
    \/ SchemaAfterSort
    \/ EmitTable
    \/ EmitDone

Spec == Init /\ [][Next]_vars

----------------------------------------------------------------------------
(* Specification of sortTablesByDependencies over arbitrary trees *)

SortNames == {NewTableName(t[1], t[2]) : t \in Catalog}

DependencyTrees ==
    UNION {[keys -> SeqsUpTo(SortNames, MaxDeps)] : keys \in SUBSET SortNames}

InitSort ==
    /\ pc = "sort"
    /\ deps \in DependencyTrees
    /\ depRows = <<>>
    /\ rowIdx = 1
    /\ tableList = {}
    /\ sortInput = EmptyMap
    /\ tableDegree = EmptyMap
    /\ queue = <<>>
    /\ sorted = <<>>
    /\ totalLenght = 0
    /\ sortedTables = <<>>
    /\ sortErr = NoErr
    /\ schemas = <<>>
    /\ builder = <<>>
    /\ emitIdx = 0
    /\ schemaOut = <<>>
    /\ schemaErr = NoErr
    /\ DataIdle
    /\ AuxIdle

NextSort ==
    \/ SortBegin
    \/ SortLoop
    \/ SortReturn

SpecSort == InitSort /\ [][NextSort]_vars

----------------------------------------------------------------------------
(* dumpTableData: the text it builds *)

batch == 50

ErrDataDump == "ErrDataDump"
ErrDBQuery == "ErrDBQuery"
DeadlineExceeded == "context deadline exceeded"

\* ctx.Err(), returned as it is
CtxErr == [code |-> DeadlineExceeded, table |-> <<>>]

Header(table) == [kind |-> "-- Data dump for table", table |-> table]
InsertHead(table) == [kind |-> "INSERT INTO", table |-> table]
Values(rows) == [kind |-> "VALUES", rows |-> rows, closing |-> ";"]
IdentityOn(table) == [kind |-> "SET IDENTITY_INSERT ON", table |-> table]
IdentityOff(table) == [kind |-> "SET IDENTITY_INSERT OFF", table |-> table]
Go == [kind |-> "GO"]

\* the tuple rendered for the n-th row of the cursor of a table
RowTuple(table, n) == <<table, n>>

\* insertBuffer.flush: the text, and the buffer afterwards
Flush(b) ==
    IF Len(b) = 0
    THEN [text |-> <<>>, buf |-> b]
    ELSE [text |-> <<Values(b)>>, buf |-> <<>>]

BatchFullLate(count) == count < 0

NothingBuffered(b) == FALSE

\* line 308: len(insertValues) > 0
HasBuffered(b) == Len(b) > 0

BatchFull(count) == count <= 0

NoIdentity(colInfo) == FALSE

IsIdentity(colInfo) == \E i \in 1..Len(colInfo) : colInfo[i].isIdentity

\* lines 313-331
AssembleBlock(table, colInfo, stmts) ==
    <<Header(table)>>
        \o (IF IsIdentity(colInfo)
            THEN <<IdentityOn(table)>> \o stmts \o <<IdentityOff(table)>>
            ELSE stmts)
        \o <<Go>>

----------------------------------------------------------------------------
(* DumpData: the per-table goroutine, lines 147-169 *)

Tasks == 1..Len(tables)

CtxDone(i) == deadline[i] # "armed"

FireDeadlineShared(d, i, at) == [j \in DOMAIN d |-> at]

FireDeadline(d, i, at) == [d EXCEPT ![i] = at]

\* the timer of ctxCycle fires; it is read by QueryContext and the row loop only
Deadline(i) ==
    /\ tpc[i] \in {"query", "rows"}
    /\ deadline[i] = "armed"
    /\ deadline' = FireDeadline(deadline, i, tpc[i])
    /\ UNCHANGED <<pc, auxVars, schemaVars, tables, skip, mappings, rowLimit, spawned, wg, mu,
                   result, progressCh, errChan, chClosed, errLog, processed, reporter,
                   tpc, queried, scanned, batchCount, insertValues, insertStmt, dump,
                   terr, wpos, dataOut, dataErr>>

IsSkipped(skipList, tbl) == Contains(skipList, GetParts(tbl)[2])

AfterSkipSilent == "exit"

\* lines 154-156: a skipped table sends its progress signal and returns
AfterSkip == "sendProgress"

\* lines 148-157
TaskStart(i) ==
    /\ tpc[i] = "start"
    /\ tpc' = [tpc EXCEPT ![i] = IF IsSkipped(skip, tables[i]) THEN AfterSkip ELSE "query"]
    /\ UNCHANGED <<pc, auxVars, schemaVars, tables, skip, mappings, rowLimit, spawned, wg, mu,
                   result, progressCh, errChan, chClosed, errLog, processed, reporter,
                   deadline, queried, scanned, batchCount, insertValues, insertStmt,
                   dump, terr, wpos, dataOut, dataErr>>

\* dumpTableData returns an error: its locals are gone
ReturnError(i, e) ==
    /\ terr' = [terr EXCEPT ![i] = e]
    /\ tpc' = [tpc EXCEPT ![i] = "sendErr"]
    /\ batchCount' = [batchCount EXCEPT ![i] = batch]
    /\ insertValues' = [insertValues EXCEPT ![i] = <<>>]
    /\ insertStmt' = [insertStmt EXCEPT ![i] = <<>>]
    /\ UNCHANGED dump

\* lines 200-224: the query and the column names
TaskQuery(i) ==
    /\ tpc[i] = "query"
    /\ queried' = [queried EXCEPT ![i] = TRUE]
    /\ \/ /\ ReturnError(i, AppError(ErrDataDump, tables[i]))
          /\ UNCHANGED scanned
       \/ /\ ~CtxDone(i)
          /\ tpc' = [tpc EXCEPT ![i] = "rows"]
          /\ UNCHANGED <<terr, batchCount, insertValues, insertStmt, dump, scanned>>
    /\ UNCHANGED <<pc, auxVars, schemaVars, tables, skip, mappings, rowLimit, spawned, wg, mu,
                   result, progressCh, errChan, chClosed, errLog, processed, reporter,
                   deadline, wpos, dataOut, dataErr>>

\* lines 225-331: one call of rows.Next() and what follows it
TaskRow(i) ==
    /\ tpc[i] = "rows"
    /\ \/ \* rows.Next() delivers a row and the deadline has fired: lines 227-229
          /\ scanned[i] < rowLimit
          /\ CtxDone(i)
          /\ ReturnError(i, CtxErr)
          /\ UNCHANGED scanned
       \/ \* rows.Next() delivers a row, rows.Scan fails: lines 243-245
          /\ scanned[i] < rowLimit
          /\ ~CtxDone(i)
          /\ ReturnError(i, AppError(ErrDataDump, tables[i]))
          /\ scanned' = [scanned EXCEPT ![i] = @ + 1]
       \/ \* rows.Next() delivers a row, which is rendered: lines 233-301
          /\ scanned[i] < rowLimit
          /\ ~CtxDone(i)
          /\ LET head == IF batchCount[i] = batch
                         THEN Append(insertStmt[i], InsertHead(tables[i]))
                         ELSE insertStmt[i]
                 count == batchCount[i] - 1
                 appended == Append(insertValues[i], RowTuple(tables[i], scanned[i] + 1))
             IN IF BatchFull(count)
                THEN /\ insertStmt' = [insertStmt EXCEPT ![i] = head \o Flush(appended).text]
                     /\ insertValues' = [insertValues EXCEPT ![i] = Flush(appended).buf]
                     /\ batchCount' = [batchCount EXCEPT ![i] = batch]
                ELSE /\ insertStmt' = [insertStmt EXCEPT ![i] = head]
                     /\ insertValues' = [insertValues EXCEPT ![i] = appended]
                     /\ batchCount' = [batchCount EXCEPT ![i] = count]
          /\ scanned' = [scanned EXCEPT ![i] = @ + 1]
          /\ UNCHANGED <<tpc, terr, dump>>
       \/ \* rows.Next() is false and rows.Err() is an error: lines 304-306
          /\ ReturnError(i, AppError(ErrDataDump, tables[i]))
          /\ UNCHANGED scanned
       \/ \* rows.Next() is false at the end of the rows: lines 308-331
          /\ LET stmts == IF HasBuffered(insertValues[i])
                          THEN insertStmt[i] \o Flush(insertValues[i]).text
                          ELSE insertStmt[i]
             IN dump' = [dump EXCEPT ![i] =
                            AssembleBlock(tables[i], Get(mappings, tables[i]), stmts)]
          /\ tpc' = [tpc EXCEPT ![i] = "lock"]
          /\ batchCount' = [batchCount EXCEPT ![i] = batch]
          /\ insertValues' = [insertValues EXCEPT ![i] = <<>>]
          /\ insertStmt' = [insertStmt EXCEPT ![i] = <<>>]
          /\ UNCHANGED <<terr, scanned>>
    /\ UNCHANGED <<pc, auxVars, schemaVars, tables, skip, mappings, rowLimit, spawned, wg, mu,
                   result, progressCh, errChan, chClosed, errLog, processed, reporter,
                   deadline, queried, wpos, dataOut, dataErr>>

\* a send on a buffered channel: blocks while full, panics when closed
CanSendUnbuffered(ch, name) == name \in chClosed

CanSend(ch, name) == name \in chClosed \/ Len(ch) < Len(tables)

\* lines 161-163
TaskSendErr(i) ==
    /\ tpc[i] = "sendErr"
    /\ CanSend(errChan, "errChan")
    /\ IF "errChan" \in chClosed
       THEN /\ tpc' = [tpc EXCEPT ![i] = "panic"]
            /\ UNCHANGED <<errChan, errLog>>
       ELSE /\ errChan' = Append(errChan, terr[i])
            /\ errLog' = Append(errLog, terr[i])
            /\ tpc' = [tpc EXCEPT ![i] = "exit"]
    /\ UNCHANGED <<pc, auxVars, schemaVars, tables, skip, mappings, rowLimit, spawned, wg, mu,
                   result, progressCh, chClosed, processed, reporter, deadline, queried,
                   scanned, batchCount, insertValues, insertStmt, dump, terr, wpos,
                   dataOut, dataErr>>

LockAnyway(holder) == TRUE

CanLock(holder) == holder = 0

\* line 165
TaskLock(i) ==
    /\ tpc[i] = "lock"
    /\ CanLock(mu)
    /\ mu' = i
    /\ tpc' = [tpc EXCEPT ![i] = "write"]
    /\ UNCHANGED <<pc, auxVars, schemaVars, tables, skip, mappings, rowLimit, spawned, wg,
                   result, progressCh, errChan, chClosed, errLog, processed, reporter,
                   deadline, queried, scanned, batchCount, insertValues, insertStmt,
                   dump, terr, wpos, dataOut, dataErr>>

\* line 166: result.WriteString(dump) copies the block in two pieces, the
\* header line and the rest
TaskWrite(i) ==
    /\ tpc[i] = "write"
    /\ IF wpos[i] = 0
       THEN /\ result' = Append(result, Head(dump[i]))
            /\ wpos' = [wpos EXCEPT ![i] = 1]
            /\ UNCHANGED tpc
       ELSE /\ result' = result \o Tail(dump[i])
            /\ wpos' = [wpos EXCEPT ![i] = Len(dump[i])]
            /\ tpc' = [tpc EXCEPT ![i] = "unlock"]
    /\ UNCHANGED <<pc, auxVars, schemaVars, tables, skip, mappings, rowLimit, spawned, wg, mu,
                   progressCh, errChan, chClosed, errLog, processed, reporter,
                   deadline, queried, scanned, batchCount, insertValues, insertStmt,
                   dump, terr, dataOut, dataErr>>

UnlockForgotten(holder) == holder

\* mu.Unlock()
Unlock(holder) == 0

\* line 167
TaskUnlock(i) ==
    /\ tpc[i] = "unlock"
    /\ mu' = Unlock(mu)
    /\ tpc' = [tpc EXCEPT ![i] = "sendProgress"]
    /\ UNCHANGED <<pc, auxVars, schemaVars, tables, skip, mappings, rowLimit, spawned, wg,
                   result, progressCh, errChan, chClosed, errLog, processed, reporter,
                   deadline, queried, scanned, batchCount, insertValues, insertStmt,
                   dump, terr, wpos, dataOut, dataErr>>

\* lines 155 and 168
TaskSendProgress(i) ==
    /\ tpc[i] = "sendProgress"
    /\ CanSend(progressCh, "progressCh")
    /\ IF "progressCh" \in chClosed
       THEN /\ tpc' = [tpc EXCEPT ![i] = "panic"]
            /\ UNCHANGED progressCh
       ELSE /\ progressCh' = Append(progressCh, 1)
            /\ tpc' = [tpc EXCEPT ![i] = "exit"]
    /\ UNCHANGED <<pc, auxVars, schemaVars, tables, skip, mappings, rowLimit, spawned, wg, mu,
                   result, errChan, chClosed, errLog, processed, reporter, deadline,
                   queried, scanned, batchCount, insertValues, insertStmt, dump, terr,
                   wpos, dataOut, dataErr>>

\* the deferred calls: cancelCycle() and wg.Done()
TaskExit(i) ==
    /\ tpc[i] = "exit"
    /\ wg' = wg - 1
    /\ tpc' = [tpc EXCEPT ![i] = "done"]
    /\ UNCHANGED <<pc, auxVars, schemaVars, tables, skip, mappings, rowLimit, spawned, mu,
                   result, progressCh, errChan, chClosed, errLog, processed, reporter,
                   deadline, queried, scanned, batchCount, insertValues, insertStmt,
                   dump, terr, wpos, dataOut, dataErr>>

----------------------------------------------------------------------------
(* DumpData: the progress goroutine, lines 135-142 *)

ReporterReceive ==
    /\ reporter = "running"
    /\ progressCh # <<>>
    /\ processed' = processed + Head(progressCh)
    /\ progressCh' = Tail(progressCh)
    /\ UNCHANGED <<pc, auxVars, schemaVars, tables, skip, mappings, rowLimit, spawned, wg, mu,
                   result, errChan, chClosed, errLog, reporter, tpc, deadline, queried,
                   scanned, batchCount, insertValues, insertStmt, dump, terr, wpos,
                   dataOut, dataErr>>

ReporterExit ==
    /\ reporter = "running"
    /\ progressCh = <<>>
    /\ "progressCh" \in chClosed
    /\ reporter' = "done"
    /\ UNCHANGED <<pc, auxVars, schemaVars, tables, skip, mappings, rowLimit, spawned, wg, mu,
                   result, progressCh, errChan, chClosed, errLog, processed, tpc,
                   deadline, queried, scanned, batchCount, insertValues, insertStmt,
                   dump, terr, wpos, dataOut, dataErr>>

----------------------------------------------------------------------------
(* DumpData: the calling goroutine *)

\* lines 104-142: the table list and the mappings are read, or a query fails
DataStart ==
    /\ pc = "dataStart"
    /\ \/ /\ dataOut' = <<>>
          /\ dataErr' = AppError(ErrDBQuery, <<>>)
          /\ pc' = "dataDone"
          /\ UNCHANGED reporter
       \/ /\ reporter' = "running"
          /\ pc' = "spawn"
          /\ UNCHANGED <<dataOut, dataErr>>
    /\ UNCHANGED <<auxVars, schemaVars, tables, skip, mappings, rowLimit, spawned, wg, mu, result,
                   progressCh, errChan, chClosed, errLog, processed, tpc, deadline,
                   queried, scanned, batchCount, insertValues, insertStmt, dump, terr,
                   wpos>>

\* lines 145-170: wg.Add(1) and the go statement for the next table
DataSpawn ==
    /\ pc = "spawn"
    /\ spawned < Len(tables)
    /\ wg' = wg + 1
    /\ spawned' = spawned + 1
    /\ tpc' = [tpc EXCEPT ![spawned + 1] = "start"]
    /\ UNCHANGED <<pc, auxVars, schemaVars, tables, skip, mappings, rowLimit, mu, result,
                   progressCh, errChan, chClosed, errLog, processed, reporter, deadline,
                   queried, scanned, batchCount, insertValues, insertStmt, dump, terr,
                   wpos, dataOut, dataErr>>

WaitSkipped(counter) == TRUE

WaitReturns(counter) == counter = 0

\* line 172
DataWait ==
    /\ pc = "spawn"
    /\ spawned = Len(tables)
    /\ WaitReturns(wg)
    /\ pc' = "close"
    /\ UNCHANGED <<auxVars, schemaVars, dataVars>>

\* lines 173-174
DataClose ==
    /\ pc = "close"
    /\ chClosed' = {"progressCh", "errChan"}
    /\ pc' = "readErr"
    /\ UNCHANGED <<auxVars, schemaVars, tables, skip, mappings, rowLimit, spawned, wg, mu, result,
                   progressCh, errChan, errLog, processed, reporter, tpc, deadline,
                   queried, scanned, batchCount, insertValues, insertStmt, dump, terr,
                   wpos, dataOut, dataErr>>

ReceiveLast(ch) == ch[Len(ch)]

ReceiveFirst(ch) == Head(ch)

\* lines 175-181
DataReturn ==
    /\ pc = "readErr"
    /\ IF errChan # <<>>
       THEN /\ dataErr' = ReceiveFirst(errChan)
            /\ errChan' = Tail(errChan)
            /\ dataOut' = <<>>
       ELSE /\ dataErr' = NoErr
            /\ dataOut' = result
            /\ UNCHANGED errChan
    /\ pc' = "dataDone"
    /\ UNCHANGED <<auxVars, schemaVars, tables, skip, mappings, rowLimit, spawned, wg, mu, result,
                   progressCh, chClosed, errLog, processed, reporter, tpc, deadline,
                   queried, scanned, batchCount, insertValues, insertStmt, dump, terr,
                   wpos>>

----------------------------------------------------------------------------
(* Specifications of DumpData *)

\* the column definitions of the catalog: [dbo].[a] has an identity column
ColumnsOf(t) ==
    IF t = <<DBO, NameA>>
    THEN <<[columnName |-> <<"i", "d">>, dataType |-> <<"i", "n", "t">>, isIdentity |-> TRUE],
           [columnName |-> <<"v">>, dataType |-> <<"i", "n", "t">>, isIdentity |-> FALSE]>>
    ELSE <<[columnName |-> <<"v">>, dataType |-> <<"i", "n", "t">>, isIdentity |-> FALSE]>>

\* getTableMappings
TableMappings(list) ==
    [name \in {NewTableName(list[i][1], list[i][2]) : i \in 1..Len(list)} |->
        ColumnsOf(CHOOSE t \in {list[i] : i \in 1..Len(list)} : NewTableName(t[1], t[2]) = name)]

\* the table list of the model: two tables of one bare name in two schemas,
\* and a table whose name holds a closing bracket
TableLists == {<<<<DBO, NameA>>, <<SchemaX, NameA>>, BracketTable>>}

\* the skip-data lists of the model: none, or every bare name of the list
SkipLists == {<<>>, <<NameA, NameBracket>>}

InitDumpData(list, limit) ==
    /\ pc = "dataStart"
    /\ SchemaIdle
    /\ AuxIdle
    /\ tables = [i \in 1..Len(list) |-> NewTableName(list[i][1], list[i][2])]
    /\ mappings = TableMappings(list)
    /\ rowLimit = limit
    /\ spawned = 0 /\ wg = 0 /\ mu = 0 /\ result = <<>>
    /\ progressCh = <<>> /\ errChan = <<>> /\ chClosed = {} /\ errLog = <<>>
    /\ processed = 0 /\ reporter = "idle"
    /\ tpc = [i \in 1..Len(list) |-> "idle"]
    /\ deadline = [i \in 1..Len(list) |-> "armed"]
    /\ queried = [i \in 1..Len(list) |-> FALSE]
    /\ scanned = [i \in 1..Len(list) |-> 0]
    /\ batchCount = [i \in 1..Len(list) |-> batch]
    /\ insertValues = [i \in 1..Len(list) |-> <<>>]
    /\ insertStmt = [i \in 1..Len(list) |-> <<>>]
    /\ dump = [i \in 1..Len(list) |-> <<>>]
    /\ terr = [i \in 1..Len(list) |-> NoErr]
    /\ wpos = [i \in 1..Len(list) |-> 0]
    /\ dataOut = <<>> /\ dataErr = NoErr

InitData ==
    /\ skip \in SkipLists
    /\ \E list \in TableLists : InitDumpData(list, MaxRows)

InitTable ==
    /\ skip \in SkipLists
    /\ \E t \in Catalog \cup {BracketTable} : InitDumpData(<<t>>, MaxRowsOneTable)

NextData ==
    \/ DataStart
    \/ DataSpawn
    \/ DataWait
    \/ DataClose
    \/ DataReturn
    \/ ReporterReceive
    \/ ReporterExit
    \/ \E i \in Tasks : TaskStart(i)
    \/ \E i \in Tasks : Deadline(i)
    \/ \E i \in Tasks : TaskQuery(i)
    \/ \E i \in Tasks : TaskRow(i)
    \/ \E i \in Tasks : TaskSendErr(i)
    \/ \E i \in Tasks : TaskLock(i)
    \/ \E i \in Tasks : TaskWrite(i)
    \/ \E i \in Tasks : TaskUnlock(i)
    \/ \E i \in Tasks : TaskSendProgress(i)
    \/ \E i \in Tasks : TaskExit(i)

SpecData == InitData /\ [][NextData]_vars

SpecTable == InitTable /\ [][NextData]_vars

\* the goroutines of DumpData: the caller, the progress reporter, one per table
CallerSteps == DataStart \/ DataSpawn \/ DataWait \/ DataClose \/ DataReturn

ReporterSteps == ReporterReceive \/ ReporterExit

TaskSteps(i) ==
    \/ TaskStart(i) \/ TaskQuery(i) \/ TaskRow(i) \/ TaskSendErr(i) \/ TaskLock(i)
    \/ TaskWrite(i) \/ TaskUnlock(i) \/ TaskSendProgress(i) \/ TaskExit(i)

\* two tables, one of them with a closing bracket in its name
PairLists == {<<<<DBO, NameA>>, BracketTable>>}

InitPair ==
    /\ skip \in SkipLists
    /\ \E list \in PairLists : InitDumpData(list, MaxRows)

TaskIds == 1..Len(CHOOSE list \in PairLists : TRUE)

\* the Go scheduler runs every goroutine that can take a step; the timers of
\* the deadlines are under no obligation
DataFairness ==
    /\ WF_vars(CallerSteps)
    /\ WF_vars(ReporterSteps)
    /\ \A i \in TaskIds : WF_vars(TaskSteps(i))

SpecPairFair == InitPair /\ [][NextData]_vars /\ DataFairness

----------------------------------------------------------------------------
(* cmd/dump.go: the dump command *)

ErrInvalidInput == "ErrInvalidInput"

\* util.IsEmpty
IsBlank(input) == TrimSpace(input) = <<>>

\* the messages of appLogger.Error and log.Fatalf
MsgConnRequired == "--conn flag is required"
MsgConnect == "Failed to connect to source database"
MsgRetrieve == "Failed to retrieve tables"
MsgOpenFile == "Failed to open (or create) schema dump file"
MsgWriteFile == "Failed to write dump file"

GoSeparator == "GO;"

SectionBare(text) == text

\* dump.WriteString(text + "\nGO;\n\n")
Section(text) == text \o <<GoSeparator>>

\* the values --conn and --dbtype can have
ConnStrings == {<<>>, <<" ">>, <<"s">>}
DbTypes == {"postgres", "sqlite", "mssql", "MSSQL", "oracle", ""}

\* strings.Split
RECURSIVE Split(_, _)
Split(input, sep) ==
    IF \E i \in 1..Len(input) : input[i] = sep
    THEN LET i == CHOOSE k \in 1..Len(input) :
                      input[k] = sep /\ \A j \in 1..(k - 1) : input[j] # sep
         IN <<SubSeq(input, 1, i - 1)>> \o Split(SubSeq(input, i + 1, Len(input)), sep)
    ELSE <<input>>

DropEmpty(parts) == SelectSeq(parts, LAMBDA part : part # <<>>)

\* util.SplitAndTrim
SplitAndTrim(input, sep) ==
    IF IsBlank(input)
    THEN <<>>
    ELSE LET parts == Split(input, sep)
         IN DropEmpty([i \in 1..Len(parts) |-> TrimSpace(parts[i])])

\* the values --include, --skip and --skip-data can have
IncludeValues == {"all", "content", "data"}
SkipValues == {<<>>, <<"a">>, <<"a", ",", " ", "b">>}

\* the tables of the database the command dumps, each with rows, and the text
\* of the INSERT statements of each
CmdTables == {NameA, NameB}
InsertText == (NameA :> "INSERT INTO [dbo].[a]") @@ (NameB :> "INSERT INTO [dbo].[b]")

\* what the three dumps can return on success; DumpData returns the blocks of
\* the tables its skip list does not hold, in any order
SchemaTexts == {<<>>, <<"CREATE TABLE">>}
DataTexts(skipList) ==
    UNION {{[i \in 1..Len(order) |-> InsertText[order[i]]] : order \in Perms(T)} :
               T \in SUBSET {t \in CmdTables : ~Contains(skipList, t)}}
ConstraintTexts == {<<>>, <<"ALTER TABLE">>}

OtherIdle == SchemaIdle /\ DataIdle /\ ConsIdle /\ FnIdle

\* log.Fatalf, and os.Exit(1) after appLogger.Error
Fatal(msg) ==
    /\ logged' = Append(logged, msg)
    /\ exitCode' = 1
    /\ pc' = "exited"

\* dumpCmd.Run, lines 28-39
CmdRun ==
    /\ pc = "run"
    /\ IF IsBlank(connStr)
       THEN Fatal(MsgConnRequired) /\ UNCHANGED options
       ELSE /\ options' = [include |-> flags.include,
                           skipTables |-> SplitAndTrim(flags.skip, ","),
                           skipDataTables |-> SplitAndTrim(flags.skipData, ",")]
            /\ pc' = "handleDump"
            /\ UNCHANGED <<logged, exitCode>>
    /\ UNCHANGED <<flags, connStr, dbType, calls, schemaStr, dataStr, constraintsStr,
                   dumpScript, outputFile, handleErr, outsideCmd>>

\* handleDump, lines 76-88
HandleDump ==
    /\ pc = "handleDump"
    /\ IF dbType = "mssql"
       THEN pc' = "connect" /\ UNCHANGED handleErr
       ELSE /\ pc' = "return"
            /\ handleErr' = IF dbType \in {"postgres", "sqlite"}
                            THEN NoErr
                            ELSE AppError(ErrInvalidInput, <<>>)
    /\ UNCHANGED <<flags, options, connStr, dbType, calls, schemaStr, dataStr, constraintsStr,
                   dumpScript, outputFile, logged, exitCode, outsideCmd>>

\* dumpMSSQL, lines 107-114
MssqlConnect ==
    /\ pc = "connect"
    /\ calls' = Append(calls, "Connect")
    /\ \/ Fatal(MsgConnect) /\ UNCHANGED dumpScript
       \/ /\ pc' = "dumpSchema"
          /\ dumpScript' = <<>>
          /\ UNCHANGED <<logged, exitCode>>
    /\ UNCHANGED <<flags, options, connStr, dbType, schemaStr, dataStr, constraintsStr, outputFile,
                   handleErr, outsideCmd>>

\* dumpMSSQL, lines 116-120
MssqlDumpSchema ==
    /\ pc = "dumpSchema"
    /\ calls' = Append(calls, "DumpSchema")
    /\ \/ Fatal(MsgRetrieve) /\ UNCHANGED <<schemaStr, dumpScript>>
       \/ /\ schemaStr' \in SchemaTexts
          /\ dumpScript' = dumpScript \o Section(schemaStr')
          /\ pc' = "dumpData"
          /\ UNCHANGED <<logged, exitCode>>
    /\ UNCHANGED <<flags, options, connStr, dbType, dataStr, constraintsStr, outputFile, handleErr,
                   outsideCmd>>

\* dumpMSSQL, lines 122-126
MssqlDumpData ==
    /\ pc = "dumpData"
    /\ calls' = Append(calls, "DumpData")
    /\ \/ Fatal(MsgRetrieve) /\ UNCHANGED <<dataStr, dumpScript>>
       \/ /\ dataStr' \in DataTexts(options.skipDataTables)
          /\ dumpScript' = dumpScript \o Section(dataStr')
          /\ pc' = "dumpConstraints"
          /\ UNCHANGED <<logged, exitCode>>
    /\ UNCHANGED <<flags, options, connStr, dbType, schemaStr, constraintsStr, outputFile, handleErr,
                   outsideCmd>>

\* dumpMSSQL, lines 128-132
MssqlDumpConstraints ==
    /\ pc = "dumpConstraints"
    /\ calls' = Append(calls, "DumpConstraints")
    /\ \/ Fatal(MsgRetrieve) /\ UNCHANGED <<constraintsStr, dumpScript>>
       \/ /\ constraintsStr' \in ConstraintTexts
          /\ dumpScript' = dumpScript \o Section(constraintsStr')
          /\ pc' = "openFile"
          /\ UNCHANGED <<logged, exitCode>>
    /\ UNCHANGED <<flags, options, connStr, dbType, schemaStr, dataStr, outputFile, handleErr,
                   outsideCmd>>

\* dumpMSSQL, lines 134-138: os.OpenFile with O_CREATE|O_WRONLY|O_TRUNC
MssqlOpenFile ==
    /\ pc = "openFile"
    /\ \/ Fatal(MsgOpenFile) /\ UNCHANGED outputFile
       \/ /\ outputFile' = [exists |-> TRUE, content |-> <<>>]
          /\ pc' = "writeFile"
          /\ UNCHANGED <<logged, exitCode>>
    /\ UNCHANGED <<flags, options, connStr, dbType, calls, schemaStr, dataStr, constraintsStr,
                   dumpScript, handleErr, outsideCmd>>

\* dumpMSSQL, lines 140-146: a failed write can leave a part of the script
MssqlWriteFile ==
    /\ pc = "writeFile"
    /\ \/ /\ Fatal(MsgWriteFile)
          /\ \E k \in 0..(Len(dumpScript) - 1) :
                 outputFile' = [exists |-> TRUE, content |-> SubSeq(dumpScript, 1, k)]
          /\ UNCHANGED handleErr
       \/ /\ outputFile' = [exists |-> TRUE, content |-> dumpScript]
          /\ handleErr' = NoErr
          /\ pc' = "return"
          /\ UNCHANGED <<logged, exitCode>>
    /\ UNCHANGED <<flags, options, connStr, dbType, calls, schemaStr, dataStr, constraintsStr,
                   dumpScript, outsideCmd>>

\* dumpCmd.Run, lines 62-63: the value of handleDump is dropped and Run returns
CmdReturn ==
    /\ pc = "return"
    /\ pc' = "exited"
    /\ exitCode' = 0
    /\ UNCHANGED <<flags, options, connStr, dbType, calls, schemaStr, dataStr, constraintsStr,
                   dumpScript, outputFile, logged, handleErr, outsideCmd>>

InitCmd ==
    /\ pc = "run"
    /\ connStr \in ConnStrings
    /\ dbType \in DbTypes
    /\ outputFile \in {NoFile, OldFile}
    /\ calls = <<>>
    /\ schemaStr = <<>> /\ dataStr = <<>> /\ constraintsStr = <<>>
    /\ dumpScript = <<>>
    /\ logged = <<>>
    /\ exitCode = 0
    /\ handleErr = NoErr
    /\ flags \in [include : IncludeValues, skip : SkipValues, skipData : SkipValues]
    /\ options = [include |-> "", skipTables |-> <<>>, skipDataTables |-> <<>>]
    /\ OtherIdle

NextCmd ==
    \/ CmdRun
    \/ HandleDump
    \/ MssqlConnect
    \/ MssqlDumpSchema
    \/ MssqlDumpData
    \/ MssqlDumpConstraints
    \/ MssqlOpenFile
    \/ MssqlWriteFile
    \/ CmdReturn

SpecCmd == InitCmd /\ [][NextCmd]_vars

----------------------------------------------------------------------------
(* DumpConstraints *)

SchemaAB == <<"a", ".", "b">>
NameBX == <<"b", ".", "x">>
NameX == <<"x">>
NameY == <<"y">>
NameZ == <<"z">>
PkName == <<"P", "K">>
FkName == <<"F", "K">>

\* the primary-key constraints of the catalog, in the order of
\* ORDER BY TABLE_SCHEMA, TABLE_NAME, CONSTRAINT_NAME
PkConstraints ==
    << [schema |-> NameA, table |-> NameBX, constraintName |-> PkName],
       [schema |-> NameA, table |-> NameX, constraintName |-> PkName],
       [schema |-> SchemaAB, table |-> NameX, constraintName |-> PkName] >>

\* the key columns a primary key can have, by ordinal position
PkColumnLists ==
    {l \in {<<>>, <<NameX>>, <<NameY, NameX>>, <<NameX, NameY, NameZ>>} :
         Len(l) <= MaxPkCols}

PkRowsOf(c, cols) ==
    [i \in 1..Len(cols) |->
        [schema |-> c.schema, table |-> c.table, constraintName |-> c.constraintName,
         column |-> cols[i], ordinal |-> i]]

\* the result sets of queryPrimaryKeys
PkResultSets ==
    {PkRowsOf(PkConstraints[1], l1) \o PkRowsOf(PkConstraints[2], l2)
         \o PkRowsOf(PkConstraints[3], l3) : l1, l2, l3 \in PkColumnLists}

\* the foreign-key constraints of the catalog, in the order of
\* ORDER BY TABLE_SCHEMA, TABLE_NAME, CONSTRAINT_NAME
FkConstraints ==
    << [childSchema |-> NameA, childTable |-> NameBX, constraintName |-> FkName,
        parentSchema |-> NameA, parentTable |-> NameX,
        updateRule |-> "CASCADE", deleteRule |-> "NO ACTION"],
       [childSchema |-> SchemaAB, childTable |-> NameX, constraintName |-> FkName,
        parentSchema |-> SchemaAB, parentTable |-> NameX,
        updateRule |-> "NO ACTION", deleteRule |-> "SET NULL"] >>

\* the <<child column, parent column>> pairs a foreign key can have, by ordinal
FkColumnLists ==
    {l \in {<<>>, <<<<NameX, NameY>>>>, <<<<NameY, NameX>>, <<NameX, NameZ>>>>} :
         Len(l) <= MaxFkCols}

FkRowsOf(c, cols) ==
    [i \in 1..Len(cols) |->
        [childSchema |-> c.childSchema, childTable |-> c.childTable,
         constraintName |-> c.constraintName,
         parentSchema |-> c.parentSchema, parentTable |-> c.parentTable,
         childColumn |-> cols[i][1], parentColumn |-> cols[i][2],
         updateRule |-> c.updateRule, deleteRule |-> c.deleteRule, ordinal |-> i]]

\* the result sets of queryForeignKeys
FkResultSets ==
    {FkRowsOf(FkConstraints[1], l1) \o FkRowsOf(FkConstraints[2], l2) :
         l1, l2 \in FkColumnLists}

\* fmt.Sprintf("%s.%s.%s", schema, table, constraintName)
ConstraintKey(schema, table, constraintName) ==
    Join(<<schema, table, constraintName>>, <<".">>)

\* lines 375-384
AddPkRow(m, row) ==
    LET key == ConstraintKey(row.schema, row.table, row.constraintName)
    IN IF key \in DOMAIN m
       THEN [m EXCEPT ![key].columns = Append(@, row.column)]
       ELSE [x \in (DOMAIN m) \cup {key} |->
                IF x = key
                THEN [schema |-> row.schema, table |-> row.table,
                      constraintName |-> row.constraintName, columns |-> <<row.column>>]
                ELSE m[x]]

\* the column list of a statement: the formatted names joined by ", "
ColumnList(cols) ==
    Join([i \in 1..Len(cols) |-> FormatObjectName(<<cols[i]>>)], <<",", " ">>)

\* lines 395-403
PkStatement(pk) ==
    [stmt |-> "PRIMARY KEY",
     table |-> FormatObjectName(<<pk.schema, pk.table>>),
     name |-> FormatObjectName(<<pk.constraintName>>),
     cols |-> ColumnList(pk.columns)]

AppendFkColumnsCrossed(fk, row) ==
    [fk EXCEPT !.childColumns = Append(@, row.childColumn),
               !.parentColumns = <<row.parentColumn>> \o @]

\* lines 458-459
AppendFkColumns(fk, row) ==
    [fk EXCEPT !.childColumns = Append(@, row.childColumn),
               !.parentColumns = Append(@, row.parentColumn)]

\* lines 456-472
AddFkRow(m, row) ==
    LET key == ConstraintKey(row.childSchema, row.childTable, row.constraintName)
    IN IF key \in DOMAIN m
       THEN [m EXCEPT ![key] = AppendFkColumns(@, row)]
       ELSE [x \in (DOMAIN m) \cup {key} |->
                IF x = key
                THEN [childSchema |-> row.childSchema, childTable |-> row.childTable,
                      constraintName |-> row.constraintName,
                      parentSchema |-> row.parentSchema, parentTable |-> row.parentTable,
                      childColumns |-> <<row.childColumn>>,
                      parentColumns |-> <<row.parentColumn>>,
                      updateRule |-> row.updateRule, deleteRule |-> row.deleteRule]
                ELSE m[x]]

\* lines 483-501
FkStatement(fk) ==
    [stmt |-> "FOREIGN KEY",
     table |-> FormatObjectName(<<fk.childSchema, fk.childTable>>),
     name |-> FormatObjectName(<<fk.constraintName>>),
     cols |-> ColumnList(fk.childColumns),
     references |-> FormatObjectName(<<fk.parentSchema, fk.parentTable>>),
     parentCols |-> ColumnList(fk.parentColumns),
     onUpdate |-> fk.updateRule,
     onDelete |-> fk.deleteRule]

ConstraintsHeader == [stmt |-> "-- Constraints Dump"]

\* return "", apperrors.New(apperrors.ErrDBQuery, ...)
ConsFail ==
    /\ consOut' = <<>>
    /\ consErr' = AppError(ErrDBQuery, <<>>)
    /\ pc' = "consDone"

\* lines 337-358
ConsStart ==
    /\ pc = "consStart"
    /\ consBuilder' = <<ConstraintsHeader>>
    /\ \/ ConsFail
       \/ pc' = "pkRows" /\ UNCHANGED <<consOut, consErr>>
    /\ UNCHANGED <<pkRows, pkIdx, pkMap, fkRows, fkIdx, fkMap, outsideCons>>

\* lines 368-385: one primary-key row
ConsPkRow ==
    /\ pc = "pkRows"
    /\ pkIdx <= Len(pkRows)
    /\ \/ ConsFail /\ UNCHANGED <<pkIdx, pkMap>>
       \/ /\ pkMap' = AddPkRow(pkMap, pkRows[pkIdx])
          /\ pkIdx' = pkIdx + 1
          /\ UNCHANGED <<pc, consOut, consErr>>
    /\ UNCHANGED <<pkRows, fkRows, fkIdx, fkMap, consBuilder, outsideCons>>

\* lines 386-436: the statements in map iteration order, then the second query
ConsPkBuild ==
    /\ pc = "pkRows"
    /\ pkIdx > Len(pkRows)
    /\ \/ ConsFail /\ UNCHANGED consBuilder
       \/ /\ \E order \in Perms(DOMAIN pkMap) :
                 consBuilder' = consBuilder
                     \o [i \in 1..Len(order) |-> PkStatement(pkMap[order[i]])]
          /\ \/ ConsFail
             \/ pc' = "fkRows" /\ UNCHANGED <<consOut, consErr>>
    /\ UNCHANGED <<pkRows, pkIdx, pkMap, fkRows, fkIdx, fkMap, outsideCons>>

\* lines 450-473: one foreign-key row
ConsFkRow ==
    /\ pc = "fkRows"
    /\ fkIdx <= Len(fkRows)
    /\ \/ ConsFail /\ UNCHANGED <<fkIdx, fkMap>>
       \/ /\ fkMap' = AddFkRow(fkMap, fkRows[fkIdx])
          /\ fkIdx' = fkIdx + 1
          /\ UNCHANGED <<pc, consOut, consErr>>
    /\ UNCHANGED <<pkRows, pkIdx, pkMap, fkRows, consBuilder, outsideCons>>

\* lines 474-506: the statements in map iteration order, and the return
ConsFkBuild ==
    /\ pc = "fkRows"
    /\ fkIdx > Len(fkRows)
    /\ \/ ConsFail /\ UNCHANGED consBuilder
       \/ /\ \E order \in Perms(DOMAIN fkMap) :
                 consBuilder' = consBuilder
                     \o [i \in 1..Len(order) |-> FkStatement(fkMap[order[i]])]
          /\ consOut' = consBuilder'
          /\ consErr' = NoErr
          /\ pc' = "consDone"
    /\ UNCHANGED <<pkRows, pkIdx, pkMap, fkRows, fkIdx, fkMap, outsideCons>>

InitCons ==
    /\ pc = "consStart"
    /\ pkRows \in PkResultSets
    /\ fkRows \in FkResultSets
    /\ pkIdx = 1 /\ pkMap = EmptyMap
    /\ fkIdx = 1 /\ fkMap = EmptyMap
    /\ consBuilder = <<>> /\ consOut = <<>> /\ consErr = NoErr
    /\ SchemaIdle /\ DataIdle /\ CmdIdle /\ FnIdle

NextCons ==
    \/ ConsStart
    \/ ConsPkRow
    \/ ConsPkBuild
    \/ ConsFkRow
    \/ ConsFkBuild

SpecCons == InitCons /\ [][NextCons]_vars

----------------------------------------------------------------------------
(* getTableMappings *)

\* a row of mssqlQueryTableMappings
ColumnRow(t, position) ==
    [schema |-> t[1], table |-> t[2], columnName |-> <<"c">>,
     columnPosition |-> position, isIdentity |-> FALSE]

\* the rows of the query for two tables; the query has no ORDER BY, so they
\* come in any order
ColumnRowSets ==
    Perms({ColumnRow(t, n) : t \in {<<DBO, NameA>>, <<SchemaX, NameA>>}, n \in 1..MaxCols})

\* return nil, apperrors.New(apperrors.ErrDBQuery, ...)
MapFail ==
    /\ tableMap' = EmptyMap
    /\ mapErr' = AppError(ErrDBQuery, <<>>)
    /\ pc' = "mapDone"

\* lines 552-553
AddColumn(m, row) ==
    LET key == NewTableName(row.schema, row.table)
    IN Put(m, key, Append(Get(m, key), row))

\* lines 533-554: one row
MapRow ==
    /\ pc = "mapRows"
    /\ colIdx <= Len(colRows)
    /\ \/ MapFail /\ UNCHANGED colIdx
       \/ /\ tableMap' = AddColumn(tableMap, colRows[colIdx])
          /\ colIdx' = colIdx + 1
          /\ UNCHANGED <<pc, mapErr>>
    /\ UNCHANGED <<colRows, rowVars, valColInfo, val, valueStr, cd, colType, outsideFn>>

\* lines 556-560
MapReturn ==
    /\ pc = "mapRows"
    /\ colIdx > Len(colRows)
    /\ \/ MapFail
       \/ pc' = "mapDone" /\ UNCHANGED <<tableMap, mapErr>>
    /\ UNCHANGED <<colRows, colIdx, rowVars, valColInfo, val, valueStr, cd, colType, outsideFn>>

InitMappings ==
    /\ pc = "mapRows"
    /\ colRows \in ColumnRowSets
    /\ colIdx = 1 /\ tableMap = EmptyMap /\ mapErr = NoErr
    /\ valColInfo = <<>> /\ val = [kind |-> "nil"] /\ valueStr = <<>>
    /\ values = <<>> /\ valueStrs = <<>>
    /\ cd = [dataType |-> <<>>] /\ colType = <<>>
    /\ SchemaIdle /\ DataIdle /\ CmdIdle /\ ConsIdle

NextMappings ==
    \/ MapRow
    \/ MapReturn

SpecMappings == InitMappings /\ [][NextMappings]_vars

----------------------------------------------------------------------------
(* Text helpers of the standard library *)

UpperToLower ==
    "A" :> "a" @@ "B" :> "b" @@ "C" :> "c" @@ "D" :> "d" @@ "E" :> "e" @@ "F" :> "f"
        @@ "G" :> "g" @@ "H" :> "h" @@ "I" :> "i" @@ "J" :> "j" @@ "K" :> "k" @@ "L" :>
        "l" @@ "M" :> "m" @@ "N" :> "n" @@ "O" :> "o" @@ "P" :> "p" @@ "Q" :> "q" @@ "R"
        :> "r" @@ "S" :> "s" @@ "T" :> "t" @@ "U" :> "u" @@ "V" :> "v" @@ "W" :> "w" @@
        "X" :> "x" @@ "Y" :> "y" @@ "Z" :> "z"

\* strings.ToLower, on ASCII letters
ToLower(s) ==
    [i \in 1..Len(s) |-> IF s[i] \in DOMAIN UpperToLower THEN UpperToLower[s[i]] ELSE s[i]]

\* strings.EqualFold, on ASCII letters
EqualFold(a, b) == ToLower(a) = ToLower(b)

DigitChars == <<"0", "1", "2", "3", "4", "5", "6", "7", "8", "9">>

\* the verb %d of fmt
RECURSIVE Digits(_)
Digits(n) ==
    IF n < 0 THEN <<"-">> \o Digits(-n)
    ELSE IF n < 10 THEN <<DigitChars[n + 1]>>
    ELSE Digits(n \div 10) \o <<DigitChars[(n % 10) + 1]>>

\* a field of time.Format, two digits or more
Pad2(n) == IF n < 10 THEN <<"0">> \o Digits(n) ELSE Digits(n)

----------------------------------------------------------------------------
(* dumpTableData: the rendering of one value, lines 249-291 *)

Quote == "'"

NullLiteral == <<"N", "U", "L", "L">>

Geography == <<"g", "e", "o", "g", "r", "a", "p", "h", "y">>

KeepQuotes(s) == s

\* strings.ReplaceAll(s, "'", "''")
RECURSIVE EscapeQuotes(_)
EscapeQuotes(s) ==
    IF s = <<>> THEN <<>>
    ELSE IF Head(s) = Quote THEN <<Quote, Quote>> \o EscapeQuotes(Tail(s))
    ELSE <<Head(s)>> \o EscapeQuotes(Tail(s))

\* fmt.Sprintf("'%s'", s)
Quoted(s) == <<Quote>> \o s \o <<Quote>>

\* v.Format("2006-01-02 15:04:05")
FormatTime(t) ==
    Digits(t.year) \o <<"-">> \o Pad2(t.month) \o <<"-">> \o Pad2(t.day) \o <<" ">>
        \o Pad2(t.hour) \o <<":">> \o Pad2(t.minute) \o <<":">> \o Pad2(t.second)

\* lines 251-290: the text appended to valueStrs for the value v of the
\* column at position i
RenderValue(i, v, colInfo) ==
    IF Len(colInfo) >= i /\ EqualFold(colInfo[i].dataType, Geography)
    THEN NullLiteral
    ELSE CASE v.kind = "nil" -> NullLiteral
           [] v.kind = "bytes" -> Quoted(EscapeQuotes(v.bytes))
           [] v.kind = "string" -> Quoted(EscapeQuotes(v.text))
           [] v.kind = "time" -> Quoted(FormatTime(v.time))
           [] v.kind = "bool" -> IF v.flag THEN <<"1">> ELSE <<"0">>
           [] OTHER -> Digits(v.number)

ValueChars == {Quote, "a"}

RECURSIVE TextsUpTo(_)
TextsUpTo(n) ==
    IF n = 0 THEN {<<>>}
    ELSE TextsUpTo(n - 1) \cup {Append(t, c) : t \in {u \in TextsUpTo(n - 1) : Len(u) = n - 1}, c \in ValueChars}

OBrien == <<"O", "'", "B", "r", "i", "e", "n">>

TextValues == TextsUpTo(MaxValueLen) \cup {OBrien}

\* what the driver hands over for a column of a row
ScannedValues ==
    {[kind |-> "nil"]}
        \cup {[kind |-> "bytes", bytes |-> t] : t \in TextValues}
        \cup {[kind |-> "string", text |-> t] : t \in TextValues}
        \cup {[kind |-> "time", time |-> [year |-> 2006, month |-> 1, day |-> 2,
                                          hour |-> 15, minute |-> 4, second |-> 5]]}
        \cup {[kind |-> "bool", flag |-> b] : b \in BOOLEAN}
        \cup {[kind |-> "int", number |-> n] : n \in {-7, 0, 42}}

\* the column definitions of the row: none, or the one of the column
ColumnInfos ==
    {<<>>} \cup {<<[dataType |-> t]>> : t \in {<<"i", "n", "t">>, Geography, <<"G", "E", "O", "G", "R", "A", "P", "H", "Y">>}}

IsGeographyColumn(colInfo) ==
    colInfo # <<>> /\ ToLower(colInfo[1].dataType) = Geography

\* a geography column is scanned as bytes or as nil
InitValue ==
    /\ pc = "render"
    /\ valColInfo \in ColumnInfos
    /\ val \in ScannedValues
    /\ IsGeographyColumn(valColInfo) => val.kind \in {"nil", "bytes"}
    /\ valueStr = <<>>
    /\ values = <<>> /\ valueStrs = <<>>
    /\ colRows = <<>> /\ colIdx = 1 /\ tableMap = EmptyMap /\ mapErr = NoErr
    /\ cd = [dataType |-> <<>>] /\ colType = <<>>
    /\ SchemaIdle /\ DataIdle /\ CmdIdle /\ ConsIdle

RenderStep ==
    /\ pc = "render"
    /\ valueStr' = RenderValue(1, val, valColInfo)
    /\ pc' = "rendered"
    /\ UNCHANGED <<colRows, colIdx, tableMap, mapErr, rowVars, valColInfo, val, cd, colType, outsideFn>>

NextValue == RenderStep

SpecValue == InitValue /\ [][NextValue]_vars

----------------------------------------------------------------------------
(* dumpTableData: one row of SELECT *, rendered with the table's mapping *)

RowTable == <<DBO, NameA>>

\* the declared types of the columns of the table, by column_id
DeclaredTypeLists == UNION {[1..n -> {<<"i", "n", "t">>, Geography, <<"v", "a", "r", "c", "h", "a", "r">>}] : n \in 1..MaxCols}

\* the row of mssqlQueryTableMappings for the column at a position
TypedColumnRow(position, type) ==
    [schema |-> RowTable[1], table |-> RowTable[2], columnName |-> <<"c">>,
     columnPosition |-> position, dataType |-> type, isIdentity |-> FALSE]

\* the rows of the query for the table, in any order
TypedColumnRowSets ==
    UNION {Perms({TypedColumnRow(i, types[i]) : i \in 1..Len(types)}) :
               types \in DeclaredTypeLists}

\* the declared type of the i-th column of SELECT *
DeclaredType(i) ==
    (CHOOSE r \in {colRows[k] : k \in 1..Len(colRows)} : r.columnPosition = i).dataType

\* what rows.Scan can deliver for a column of a declared type
ValuesOfType(type) ==
    {[kind |-> "nil"]}
        \cup (IF type = Geography THEN {[kind |-> "bytes", bytes |-> <<"a">>]}
              ELSE IF type = <<"i", "n", "t">> THEN {[kind |-> "int", number |-> 42]}
              ELSE {[kind |-> "string", text |-> <<"a">>]})

InitRow ==
    /\ pc = "mapRows"
    /\ colRows \in TypedColumnRowSets
    /\ colIdx = 1 /\ tableMap = EmptyMap /\ mapErr = NoErr
    /\ valColInfo = <<>> /\ val = [kind |-> "nil"] /\ valueStr = <<>>
    /\ values = <<>> /\ valueStrs = <<>>
    /\ cd = [dataType |-> <<>>] /\ colType = <<>>
    /\ SchemaIdle /\ DataIdle /\ CmdIdle /\ ConsIdle

\* lines 237-291: a row is scanned and each of its values is rendered, with
\* the column definitions getTableMappings returned for the table
RenderRow ==
    /\ pc = "mapDone"
    /\ mapErr = NoErr
    /\ values' \in {vs \in [1..Len(colRows) -> UNION {ValuesOfType(t) : t \in {<<"i", "n", "t">>, Geography, <<"v", "a", "r", "c", "h", "a", "r">>}}] :
                        \A i \in 1..Len(colRows) : vs[i] \in ValuesOfType(DeclaredType(i))}
    /\ LET colInfo == Get(tableMap, NewTableName(RowTable[1], RowTable[2]))
       IN valueStrs' = [i \in 1..Len(colRows) |-> RenderValue(i, values'[i], colInfo)]
    /\ pc' = "rowDone"
    /\ UNCHANGED <<colRows, colIdx, tableMap, mapErr, valColInfo, val, valueStr, cd, colType,
                   outsideFn>>

NextRow ==
    \/ MapRow
    \/ MapReturn
    \/ RenderRow

SpecRow == InitRow /\ [][NextRow]_vars

----------------------------------------------------------------------------
(* formatColumnType, lines 694-711 *)

CharTypes == {<<"c", "h", "a", "r">>, <<"v", "a", "r", "c", "h", "a", "r">>, <<"n", "c", "h", "a", "r">>, <<"n", "v", "a", "r", "c", "h", "a", "r">>}

HasLengthOrZero(c) == c.maxLength >= 0

HasLength(c) == c.maxLength > 0

formatColumnType(c) ==
    LET dt == ToLower(c.dataType)
    IN IF dt \in CharTypes
       THEN IF HasLength(c)
            THEN c.dataType \o <<"(">> \o Digits(c.maxLength) \o <<")">>
            ELSE c.dataType \o <<"(", "m", "a", "x", ")">>
       ELSE IF dt = <<"d", "e", "c", "i", "m", "a", "l">> \/ dt = <<"n", "u", "m", "e", "r", "i", "c">>
            THEN c.dataType \o <<"(">> \o Digits(c.precision) \o <<",">>
                     \o Digits(c.scale) \o <<")">>
            ELSE c.dataType

\* the raw data-type names of the model, in the letter case the catalog gives
DataTypes ==
    {<<"c", "h", "a", "r">>, <<"v", "a", "r", "c", "h", "a", "r">>, <<"V", "a", "r", "C", "h", "a", "r">>, <<"n", "c", "h", "a", "r">>, <<"N", "V", "A", "R", "C", "H", "A", "R">>, <<"d", "e", "c", "i", "m", "a", "l">>, <<"N", "u", "m", "e", "r", "i", "c">>, <<"i", "n", "t">>, <<"t", "e", "x", "t">>, <<"d", "a", "t", "e", "t", "i", "m", "e">>}

ColumnDefs ==
    [dataType : DataTypes, maxLength : {-1, 0, 1, 50}, precision : {0, 10}, scale : {0, 2}]

InitType ==
    /\ pc = "format"
    /\ cd \in ColumnDefs
    /\ colType = <<>>
    /\ colRows = <<>> /\ colIdx = 1 /\ tableMap = EmptyMap /\ mapErr = NoErr
    /\ valColInfo = <<>> /\ val = [kind |-> "nil"] /\ valueStr = <<>>
    /\ values = <<>> /\ valueStrs = <<>>
    /\ SchemaIdle /\ DataIdle /\ CmdIdle /\ ConsIdle

FormatStep ==
    /\ pc = "format"
    /\ colType' = formatColumnType(cd)
    /\ pc' = "formatted"
    /\ UNCHANGED <<colRows, colIdx, tableMap, mapErr, rowVars, valColInfo, val, valueStr, cd, outsideFn>>

NextType == FormatStep

SpecType == InitType /\ [][NextType]_vars

----------------------------------------------------------------------------
(* Graphs of dependencies *)

Parents(d, t) == IF t \in DOMAIN d THEN {d[t][i] : i \in 1..Len(d[t])} ELSE {}

RECURSIVE Ancestors(_, _)
Ancestors(d, S) ==
    LET more == S \cup UNION {Parents(d, t) : t \in S}
    IN IF more = S THEN S ELSE Ancestors(d, more)

\* the tables t depends on, directly or not
DependsOnAll(d, t) == Ancestors(d, Parents(d, t))

Acyclic(d) == \A t \in DOMAIN d : t \notin DependsOnAll(d, t)

CycleBetweenDistinct(d) ==
    \E t, u \in DOMAIN d : t # u /\ u \in DependsOnAll(d, t) /\ t \in DependsOnAll(d, u)

NamesOnlyKeys(d) == \A t \in DOMAIN d : Parents(d, t) \subseteq DOMAIN d

NoParentTwice(d) ==
    \A t \in DOMAIN d : \A i, j \in 1..Len(d[t]) : d[t][i] = d[t][j] => i = j

Position(list, x) ==
    IF Contains(list, x) THEN CHOOSE i \in 1..Len(list) : list[i] = x ELSE 0

Occurrences(list, x) == Cardinality({i \in 1..Len(list) : list[i] = x})

\* the foreign-key graph of the dependency rows: child -> parents
FkGraph(rows) ==
    LET edges == {<<NewTableName(rows[i].childSchema.str, rows[i].child.str),
                    NewTableName(rows[i].parentSchema, rows[i].parent)>> :
                      i \in {k \in 1..Len(rows) : rows[k].child.valid}}
        nodes == {e[1] : e \in edges} \cup {e[2] : e \in edges}
    IN [t \in nodes |-> {e[2] : e \in {f \in edges : f[1] = t}}]

FkParents(g, t) == IF t \in DOMAIN g THEN g[t] ELSE {}

RECURSIVE FkAncestors(_, _)
FkAncestors(g, S) ==
    LET more == S \cup UNION {FkParents(g, t) : t \in S}
    IN IF more = S THEN S ELSE FkAncestors(g, more)

FkAcyclic(g) == \A t \in DOMAIN g : t \notin FkAncestors(g, g[t])

FkCycleBetweenDistinct(g) ==
    \E t, u \in DOMAIN g :
        t # u /\ u \in FkAncestors(g, g[t]) /\ t \in FkAncestors(g, g[u])

----------------------------------------------------------------------------
(* Claims *)

\* C1: for an acyclic DependencyTree whose lists name only keys and no parent
\* twice, sortTablesByDependencies returns no error and a list holding every
\* key exactly once, every parent before each table that depends on it,
\* whatever the map iteration order.
C1_SortIsTopological ==
    (pc = "sorted" /\ Acyclic(sortInput) /\ NamesOnlyKeys(sortInput) /\ NoParentTwice(sortInput))
        => /\ sortErr = NoErr
           /\ Len(sortedTables) = Cardinality(DOMAIN sortInput)
           /\ \A t \in DOMAIN sortInput : Occurrences(sortedTables, t) = 1
           /\ \A t \in DOMAIN sortInput : \A p \in Parents(sortInput, t) :
                  Position(sortedTables, p) < Position(sortedTables, t)

C1_Witness ==
    /\ pc = "sorted"
    /\ Acyclic(sortInput) /\ NamesOnlyKeys(sortInput) /\ NoParentTwice(sortInput)
    /\ Cardinality(DOMAIN sortInput) = 3
    /\ \E t \in DOMAIN sortInput : Len(sortInput[t]) = 2
    /\ \E t \in DOMAIN sortInput : Len(sortInput[t]) = 1
    /\ Len(sortedTables) = 3

\* C2: when the foreign-key tuples form an acyclic graph, DumpSchema emits the
\* CREATE TABLE of every referenced parent before the CREATE TABLE of every
\* table that references it, for every order of the dependency rows.
C2_ParentCreatedBeforeChild ==
    (pc = "schemaDone" /\ FkAcyclic(FkGraph(depRows)))
        => \A t \in DOMAIN FkGraph(depRows) : \A p \in FkGraph(depRows)[t] :
               /\ Position(schemaOut, CreateTable(p)) > 0
               /\ Position(schemaOut, CreateTable(p)) < Position(schemaOut, CreateTable(t))

\* C3: a DependencyTree with a cycle between distinct tables makes
\* sortTablesByDependencies return an ErrMigrateProcess error and a nil
\* list, never a partial order.
C3_CycleIsAnError ==
    (pc = "sorted" /\ CycleBetweenDistinct(sortInput))
        => sortErr.code = ErrMigrateProcess /\ sortedTables = <<>>

C3_Witness ==
    /\ pc = "sorted"
    /\ CycleBetweenDistinct(sortInput)
    /\ sorted # <<>>
    /\ sortErr.code = ErrMigrateProcess

\* C4: when the foreign-key tuples hold a cycle between distinct tables,
\* DumpSchema returns an error and an empty script, whatever the order of
\* the tuples.
C4_CycleFailsDumpSchema ==
    (pc = "schemaDone" /\ FkCycleBetweenDistinct(FkGraph(depRows)))
        => schemaErr # NoErr /\ schemaOut = <<>>

----------------------------------------------------------------------------
(* DumpData: what a run wrote *)

\* the <<schema, table>> of the catalog a TableName was made from
CatalogEntry(tbl) ==
    CHOOSE t \in Catalog \cup {BracketTable} : NewTableName(t[1], t[2]) = tbl

\* the task's table is named in the skip-data list
ListedInSkip(i) == Contains(skip, CatalogEntry(tables[i])[2])

\* a piece of text that belongs to the block of a table
PieceOf(piece, tbl) ==
    IF piece.kind = "GO" THEN FALSE
    ELSE IF piece.kind = "VALUES" THEN \E k \in 1..Len(piece.rows) : piece.rows[k][1] = tbl
    ELSE piece.table = tbl

WroteNothing(i) ==
    /\ wpos[i] = 0
    /\ \A k \in 1..Len(result) : ~PieceOf(result[k], tables[i])

RECURSIVE ConcatBlocks(_)
ConcatBlocks(order) ==
    IF order = <<>> THEN <<>> ELSE dump[Head(order)] \o ConcatBlocks(Tail(order))

Failed(i) == terr[i] # NoErr

IsInsertPiece(piece) == piece.kind \in {"INSERT INTO", "VALUES"}

Min(a, b) == IF a < b THEN a ELSE b

CeilDiv(n, d) == (n + d - 1) \div d

\* dumpTableData has returned a block for task i
Dumped(i) == tpc[i] \in {"lock", "write", "unlock", "sendProgress", "exit", "done"} /\ dump[i] # <<>>

\* C5: what has been appended to result is always the whole blocks of some
\* tasks, one after the other, followed by the part that the task holding
\* the lock has written so far; when every task succeeds the returned string
\* is such a sequence of whole blocks, and the block of every table not named
\* in the skip list is among them.
C5_BlocksWholeAndOnce ==
    /\ \E order \in Perms({i \in Tasks : Dumped(i) /\ tpc[i] \notin {"lock", "write"}}) :
           \/ result = ConcatBlocks(order)
           \/ \E i \in Tasks :
                  /\ tpc[i] = "write"
                  /\ result = ConcatBlocks(order) \o SubSeq(dump[i], 1, wpos[i])
    /\ (pc = "dataDone" /\ dataErr = NoErr /\ \A i \in Tasks : ~Failed(i))
           => \E S \in SUBSET Tasks :
                  /\ {i \in Tasks : ~ListedInSkip(i)} \subseteq S
                  /\ \E order \in Perms(S) : dataOut = ConcatBlocks(order)

C5_Witness ==
    /\ pc = "dataDone" /\ dataErr = NoErr
    /\ skip = <<>>
    /\ \A i \in Tasks : scanned[i] = 1
    /\ dataOut = ConcatBlocks(<<3, 1, 2>>)

\* C6: if a task failed, DumpData returns the empty string and the first error
\* sent on errChan, whatever was appended to result; it returns no dump
\* together with an error, and no error-free dump when a task failed.
C6_FirstErrorAndNoDump ==
    pc = "dataDone"
        => /\ (\E i \in Tasks : Failed(i))
                  => dataOut = <<>> /\ dataErr # NoErr /\ dataErr = errLog[1]
           /\ dataErr # NoErr => dataOut = <<>>
           /\ dataErr = NoErr => \A i \in Tasks : ~Failed(i)

C6_Witness ==
    /\ pc = "dataDone"
    /\ Len(errLog) = 2
    /\ errLog[1] # errLog[2]
    /\ result # <<>>
    /\ dataErr = errLog[1]
    /\ dataOut = <<>>

\* C7: wg.Wait has returned, a channel is closed, errChan is read and
\* DumpData has returned only when every task that was started has finished.
C7_AllTasksDoneFirst ==
    (pc \in {"close", "readErr", "dataDone"} \/ chClosed # {})
        => \A i \in 1..spawned : tpc[i] = "done"

C7_Witness ==
    /\ pc = "dataDone"
    /\ spawned = 3
    /\ \E i \in Tasks : Failed(i)
    /\ \E i \in Tasks : ~Failed(i) /\ ~WroteNothing(i)
    /\ chClosed = {"progressCh", "errChan"}

C9_BatchesOfFifty ==
    \A i \in Tasks :
        Dumped(i) =>
            LET n == scanned[i]
                stmts == SelectSeq(dump[i], IsInsertPiece)
            IN /\ Len(stmts) = 2 * CeilDiv(n, batch)
               /\ \A k \in 1..CeilDiv(n, batch) :
                      /\ stmts[2 * k - 1] = InsertHead(tables[i])
                      /\ stmts[2 * k] =
                            Values([j \in 1..(Min(batch * k, n) - batch * (k - 1)) |->
                                       RowTuple(tables[i], batch * (k - 1) + j)])

C9_Witness ==
    \E i \in Tasks :
        /\ Dumped(i)
        /\ scanned[i] = 120
        /\ LET stmts == SelectSeq(dump[i], IsInsertPiece)
           IN /\ Len(stmts) = 6
              /\ Len(stmts[2].rows) = 50
              /\ Len(stmts[4].rows) = 50
              /\ Len(stmts[6].rows) = 20

\* C10: a table whose bare name is in the skip-data list is never queried,
\* nothing of it reaches the output, and its task ends having sent a
\* progress signal and no error.
C10_SkippedTableUntouched ==
    \A i \in Tasks :
        ListedInSkip(i)
            => /\ ~queried[i]
               /\ WroteNothing(i)
               /\ \A k \in 1..Len(dataOut) : ~PieceOf(dataOut[k], tables[i])
               /\ tpc[i] \in {"exit", "done"} => ~Failed(i) /\ processed + Len(progressCh) >= 1

\* the other half of C10: DumpSchema emits the CREATE TABLE of every table of
\* the table list, whatever its name
C10_SchemaStillCreated ==
    (pc = "schemaDone" /\ schemaErr = NoErr)
        => \A t \in tableList :
               Occurrences(schemaOut, CreateTable(NewTableName(t[1], t[2]))) = 1

----------------------------------------------------------------------------
(* DumpSchema: what a run emitted *)

\* the tables named by the table list and by the dependency rows
NamedTables ==
    {NewTableName(t[1], t[2]) : t \in tableList}
        \cup {NewTableName(depRows[i].childSchema.str, depRows[i].child.str) :
                  i \in {k \in 1..Len(depRows) : depRows[k].child.valid}}
        \cup {NewTableName(depRows[i].parentSchema, depRows[i].parent) :
                  i \in 1..Len(depRows)}

\* the tables that are the child of some dependency row
ChildTables ==
    {NewTableName(depRows[i].childSchema.str, depRows[i].child.str) :
         i \in {k \in 1..Len(depRows) : depRows[k].child.valid}}

CreateTableCount(out) == Cardinality({i \in 1..Len(out) : out[i].stmt = "CREATE TABLE"})

\* C11: every table of the table list and of the dependency rows is a key of
\* the tree handed to the sorter, and a successful DumpSchema emits exactly
\* one CREATE TABLE for each of them and no other.
C11_EveryTableCreatedOnce ==
    /\ pc \in {"sortLoop", "sorted", "emit", "schemaDone"}
           => NamedTables \subseteq DOMAIN sortInput
    /\ (pc = "schemaDone" /\ schemaErr = NoErr)
           => /\ \A n \in NamedTables : Occurrences(schemaOut, CreateTable(n)) = 1
              /\ CreateTableCount(schemaOut) = Cardinality(NamedTables)

C11_Witness ==
    /\ pc = "schemaDone" /\ schemaErr = NoErr
    /\ BracketTableY \in tableList
    /\ Len(depRows) >= 2
    /\ NewTableName(SchemaX, NameA) \notin ChildTables
    /\ \E i \in 1..Len(depRows) :
           NewTableName(depRows[i].parentSchema, depRows[i].parent) = NewTableName(SchemaX, NameA)
    /\ NewTableName(DBO, NameB) \notin DOMAIN FkGraph(depRows)
    /\ Occurrences(schemaOut, CreateTable(NewTableName(SchemaY, NameBracket))) = 1

----------------------------------------------------------------------------
(* The dump command: what a run did *)

StageOrder == <<"Connect", "DumpSchema", "DumpData", "DumpConstraints">>

IsPrefix(s, t) == Len(s) <= Len(t) /\ s = SubSeq(t, 1, Len(s))

Untouched(f) == f \in {NoFile, OldFile}

\* Connect or one of the three dumps has failed
StageFailed == \E k \in 1..Len(logged) : logged[k] \in {MsgConnect, MsgRetrieve}

CmdError == IsBlank(connStr) \/ handleErr # NoErr \/ logged # <<>>

\* C13: a run of the dump command that met an error ends with a non-zero exit
\* status and a message.
C13_ErrorsExitNonZero ==
    (pc = "exited" /\ CmdError) => exitCode # 0 /\ logged # <<>>

----------------------------------------------------------------------------
(* DumpConstraints: what a run emitted *)

PkTriples == {<<pkRows[i].schema, pkRows[i].table, pkRows[i].constraintName>> :
                  i \in 1..Len(pkRows)}

\* the statement of a primary key: its columns are those of its rows, in row order
PkStatementOf(t) ==
    LET Mine(r) == <<r.schema, r.table, r.constraintName>> = t
        rs == SelectSeq(pkRows, Mine)
    IN PkStatement([schema |-> t[1], table |-> t[2], constraintName |-> t[3],
                    columns |-> [i \in 1..Len(rs) |-> rs[i].column]])

StatementCount(out, kind) == Cardinality({i \in 1..Len(out) : out[i].stmt = kind})

\* C14: a successful DumpConstraints emits, for every distinct (schema, table,
\* constraint name) of the primary-key rows, exactly one PRIMARY KEY statement,
\* with the columns of its rows in row order, and no other PRIMARY KEY
\* statement.
C14_OneStatementPerPrimaryKey ==
    (pc = "consDone" /\ consErr = NoErr)
        => /\ \A t \in PkTriples : Occurrences(consOut, PkStatementOf(t)) = 1
           /\ StatementCount(consOut, "PRIMARY KEY") = Cardinality(PkTriples)

\* the rows read so far that went into the entry of fkMap under a key
FkRowsUnder(key) ==
    LET Mine(r) == ConstraintKey(r.childSchema, r.childTable, r.constraintName) = key
    IN SelectSeq(SubSeq(fkRows, 1, fkIdx - 1), Mine)

\* C15: in every foreign key assembled, the child and the parent column lists
\* have the same length, their i-th entries are those of the i-th row of the
\* constraint, and the rules are those of its first row; the statement written
\* for it lists exactly these.
C15_ForeignKeyColumnsAligned ==
    /\ \A key \in DOMAIN fkMap :
           LET fk == fkMap[key]
               rs == FkRowsUnder(key)
           IN /\ Len(fk.childColumns) = Len(fk.parentColumns)
              /\ Len(fk.childColumns) = Len(rs)
              /\ \A i \in 1..Len(rs) :
                     /\ fk.childColumns[i] = rs[i].childColumn
                     /\ fk.parentColumns[i] = rs[i].parentColumn
              /\ fk.updateRule = rs[1].updateRule
              /\ fk.deleteRule = rs[1].deleteRule
    /\ (pc = "consDone" /\ consErr = NoErr)
           => /\ \A key \in DOMAIN fkMap :
                     LET rs == FkRowsUnder(key)
                     IN \E k \in 1..Len(consOut) :
                            /\ consOut[k].stmt = "FOREIGN KEY"
                            /\ consOut[k].cols =
                                   ColumnList([i \in 1..Len(rs) |-> rs[i].childColumn])
                            /\ consOut[k].parentCols =
                                   ColumnList([i \in 1..Len(rs) |-> rs[i].parentColumn])
                            /\ consOut[k].onUpdate = rs[1].updateRule
                            /\ consOut[k].onDelete = rs[1].deleteRule
                            /\ consOut[k].table =
                                   FormatObjectName(<<rs[1].childSchema, rs[1].childTable>>)
              /\ StatementCount(consOut, "FOREIGN KEY") = Cardinality(DOMAIN fkMap)

C15_Witness ==
    /\ pc = "consDone" /\ consErr = NoErr
    /\ \E k \in 1..Len(consOut) :
           /\ consOut[k].stmt = "FOREIGN KEY"
           /\ consOut[k].cols = ColumnList(<<NameY, NameX>>)
           /\ consOut[k].parentCols = ColumnList(<<NameX, NameZ>>)
           /\ consOut[k].onUpdate = "CASCADE"

----------------------------------------------------------------------------
(* getTableMappings: what it returns *)

\* C16: the column definitions of every table of the mapping are in ascending
\* ordinal position.
C16_ColumnsByOrdinal ==
    (pc = "mapDone" /\ mapErr = NoErr)
        => \A t \in DOMAIN tableMap :
               \A i, j \in 1..Len(tableMap[t]) :
                   i < j => tableMap[t][i].columnPosition < tableMap[t][j].columnPosition

----------------------------------------------------------------------------
(* dumpTableData: IDENTITY_INSERT *)

PositionsOf(block, kind) == {k \in 1..Len(block) : block[k].kind = kind}

HasIdentityColumn(i) ==
    \E c \in 1..Len(Get(mappings, tables[i])) : Get(mappings, tables[i])[c].isIdentity

\* C17: the block of a table holds SET IDENTITY_INSERT ON before its first
\* INSERT and SET IDENTITY_INSERT OFF after its last INSERT and before GO
\* exactly when a column of the table is an identity column, each once; a block
\* of a table without identity column holds neither.
C17_IdentityInsertPair ==
    \A i \in Tasks :
        dump[i] # <<>> =>
            LET on == PositionsOf(dump[i], "SET IDENTITY_INSERT ON")
                off == PositionsOf(dump[i], "SET IDENTITY_INSERT OFF")
                inserts == {k \in 1..Len(dump[i]) : IsInsertPiece(dump[i][k])}
                gos == PositionsOf(dump[i], "GO")
            IN IF HasIdentityColumn(i)
               THEN /\ Cardinality(on) = 1 /\ Cardinality(off) = 1
                    /\ \A a \in on, b \in off :
                         /\ a < b
                         /\ dump[i][a].table = tables[i] /\ dump[i][b].table = tables[i]
                         /\ \A k \in inserts : a < k /\ k < b
                         /\ \A g \in gos : b < g
               ELSE on = {} /\ off = {}

C17_Witness ==
    \E i \in Tasks :
        /\ HasIdentityColumn(i)
        /\ Cardinality({k \in 1..Len(dump[i]) : dump[i][k].kind = "INSERT INTO"}) >= 2
        /\ PositionsOf(dump[i], "SET IDENTITY_INSERT OFF") # {}

----------------------------------------------------------------------------
(* DumpSchema: the CREATE SCHEMA guards *)

BuiltInSchemas == {DBO, SYS, INFORMATION_SCHEMA}

\* the (schema, name) pairs the catalog gave for the tables of the script
TablePairs ==
    tableList
        \cup {<<depRows[i].childSchema.str, depRows[i].child.str>> :
                  i \in {k \in 1..Len(depRows) : depRows[k].child.valid}}
        \cup {<<depRows[i].parentSchema, depRows[i].parent>> : i \in 1..Len(depRows)}

\* the sorted tables that belong to schema s
TablesIn(s) ==
    {n \in {sortedTables[i] : i \in 1..Len(sortedTables)} : \E t \in TablePairs : t[1] = s /\ NewTableName(t[1], t[2]) = n}

FirstPosition(seq, pieces) ==
    LET at == {i \in 1..Len(seq) : seq[i] \in pieces}
    IN CHOOSE i \in at : \A j \in at : i <= j

\* C18: in the script of a successful DumpSchema the guard of a schema that is
\* none of dbo, sys, INFORMATION_SCHEMA and that holds a sorted table occurs
\* exactly once, before the first CREATE TABLE of a table of that schema; the
\* guard of dbo, sys or INFORMATION_SCHEMA never occurs.
C18_SchemaGuardOnceAndFirst ==
    (pc = "schemaDone" /\ schemaErr = NoErr)
        => /\ \A s \in {t[1] : t \in TablePairs} \ BuiltInSchemas :
                  TablesIn(s) # {}
                      => /\ Occurrences(schemaOut, CreateSchema(s)) = 1
                         /\ FirstPosition(schemaOut, {CreateSchema(s)})
                                < FirstPosition(schemaOut, {CreateTable(n) : n \in TablesIn(s)})
           /\ \A s \in BuiltInSchemas : Occurrences(schemaOut, CreateSchema(s)) = 0

----------------------------------------------------------------------------
(* dumpTableData: how a value is rendered *)

\* the text of which s is the doubling, if single quotes occur in s in pairs
RECURSIVE Undoubled(_)
Undoubled(s) ==
    IF s = <<>> THEN <<>>
    ELSE IF Head(s) # Quote THEN <<Head(s)>> \o Undoubled(Tail(s))
    ELSE IF Len(s) >= 2 /\ s[2] = Quote THEN <<Quote>> \o Undoubled(SubSeq(s, 3, Len(s)))
    ELSE <<"lone quote">>

\* s is the text t with every single quote doubled, in one pair of quotes
IsQuotedText(s, t) ==
    /\ Len(s) >= 2
    /\ s[1] = Quote /\ s[Len(s)] = Quote
    /\ Undoubled(SubSeq(s, 2, Len(s) - 1)) = t
    /\ Len(s) = Len(t) + 2 + Cardinality({i \in 1..Len(t) : t[i] = Quote})

RenderedAsClaimed ==
    /\ val.kind = "nil" => valueStr = <<"N", "U", "L", "L">>
    /\ val.kind = "bool" => valueStr = (IF val.flag THEN <<"1">> ELSE <<"0">>)
    /\ val.kind = "string" => IsQuotedText(valueStr, val.text)
    /\ val.kind = "bytes" => IsQuotedText(valueStr, val.bytes)

----------------------------------------------------------------------------
(* formatColumnType: the type of a column definition *)

TypeSuffix == SubSeq(colType, Len(cd.dataType) + 1, Len(colType))

\* C20: char, varchar, nchar and nvarchar, in any letter case, are rendered
\* with (length) when the maximum length is positive and with (max) otherwise;
\* decimal and numeric with (precision,scale); every other type as its bare
\* name.
C20_ColumnTypeSuffix ==
    pc = "formatted"
        => /\ SubSeq(colType, 1, Len(cd.dataType)) = cd.dataType
           /\ IF ToLower(cd.dataType) \in {<<"c", "h", "a", "r">>, <<"v", "a", "r", "c", "h", "a", "r">>, <<"n", "c", "h", "a", "r">>, <<"n", "v", "a", "r", "c", "h", "a", "r">>}
              THEN IF cd.maxLength > 0
                   THEN TypeSuffix = <<"(">> \o Digits(cd.maxLength) \o <<")">>
                   ELSE TypeSuffix = <<"(", "m", "a", "x", ")">>
              ELSE IF ToLower(cd.dataType) \in {<<"d", "e", "c", "i", "m", "a", "l">>, <<"n", "u", "m", "e", "r", "i", "c">>}
                   THEN TypeSuffix = <<"(">> \o Digits(cd.precision) \o <<",">>
                                         \o Digits(cd.scale) \o <<")">>
                   ELSE colType = cd.dataType
           /\ (cd.dataType = <<"v", "a", "r", "c", "h", "a", "r">> /\ cd.maxLength = -1) => colType = <<"v", "a", "r", "c", "h", "a", "r", "(", "m", "a", "x", ")">>
           /\ (cd.dataType = <<"v", "a", "r", "c", "h", "a", "r">> /\ cd.maxLength = 50) => colType = <<"v", "a", "r", "c", "h", "a", "r", "(", "5", "0", ")">>
           /\ (cd.dataType = <<"d", "e", "c", "i", "m", "a", "l">> /\ cd.precision = 10 /\ cd.scale = 2) => colType = <<"d", "e", "c", "i", "m", "a", "l", "(", "1", "0", ",", "2", ")">>
           /\ cd.dataType = <<"i", "n", "t">> => colType = <<"i", "n", "t">>

C20_Witness ==
    /\ pc = "formatted"
    /\ cd.dataType = <<"N", "V", "A", "R", "C", "H", "A", "R">>
    /\ cd.maxLength = 0
    /\ colType = <<"N", "V", "A", "R", "C", "H", "A", "R", "(", "m", "a", "x", ")">>

----------------------------------------------------------------------------
(* The dump command: --skip and --include *)

\* the command has written the whole script
ScriptWritten ==
    pc = "exited" /\ exitCode = 0 /\ dbType = "mssql" /\ outputFile.exists

InScript(text) == \E k \in 1..Len(outputFile.content) : outputFile.content[k] = text

\* the bare names the value of a comma-separated flag holds
NamedIn(flag) == {t \in CmdTables : Contains(SplitAndTrim(flag, ","), t)}

\* C21: the script the dump command has written holds no INSERT statement of a
\* table named in --skip.
C21_SkipOptionIgnoresTable ==
    ScriptWritten => \A t \in NamedIn(flags.skip) : ~InScript(InsertText[t])

\* C22: the script the dump command has written holds no INSERT statement with
\* --include content, only INSERT statements with --include data, and the
\* schema, the data and the constraints with --include all.
C22_IncludeSelectsContent ==
    ScriptWritten
        => /\ flags.include = "content" => \A t \in CmdTables : ~InScript(InsertText[t])
           /\ flags.include = "data" => ~InScript("CREATE TABLE") /\ ~InScript("ALTER TABLE")
           /\ flags.include = "all"
                  => outputFile.content =
                         schemaStr \o <<GoSeparator>> \o dataStr \o <<GoSeparator>>
                             \o constraintsStr \o <<GoSeparator>>

----------------------------------------------------------------------------
(* analyzeDependencies: the tree it returns *)

\* C23: when analyzeDependencies has read every dependency row, the parent of
\* every row with a non-empty child is in the dependency list of that child,
\* and the parent of every row is a key of the tree.
C23_DependenciesKept ==
    pc = "tableList"
        => \A i \in 1..Len(depRows) :
               LET childName == NewTableName(ScanChild(depRows[i].childSchema),
                                             ScanChild(depRows[i].child))
                   parentName == NewTableName(depRows[i].parentSchema, depRows[i].parent)
               IN /\ parentName \in DOMAIN deps
                  /\ ~IsEmpty(childName)
                         => childName \in DOMAIN deps /\ Contains(deps[childName], parentName)

----------------------------------------------------------------------------
(* dumpTableData: the geography placeholder *)

IsGeographyType(type) == ToLower(type) = <<"g", "e", "o", "g", "r", "a", "p", "h", "y">>

\* C24: the value of a column declared geography is rendered NULL, and a value
\* that is not nil of a column of another type is not rendered NULL, whatever
\* the order of the column definitions in the mapping.
C24_NullOnlyForGeography ==
    pc = "rowDone"
        => \A i \in 1..Len(values) :
               IF IsGeographyType(DeclaredType(i))
               THEN valueStrs[i] = <<"N", "U", "L", "L">>
               ELSE values[i].kind # "nil" => valueStrs[i] # <<"N", "U", "L", "L">>

----------------------------------------------------------------------------
(* DumpData: the mutex, the signals and the errors of the tasks *)

Holding(i) == tpc[i] \in {"write", "unlock"}

\* C25: at most one task is between mu.Lock() and mu.Unlock(), the task that
\* appends to the shared buffer is the holder of the mutex, and a task that
\* queries, renders rows, waits for the mutex, sends on a channel or has
\* finished does not hold it.
C25_AppendUnderMutex ==
    /\ Cardinality({i \in Tasks : Holding(i)}) <= 1
    /\ \A i \in Tasks : Holding(i) <=> mu = i
    /\ \A i \in Tasks : (0 < wpos[i] /\ wpos[i] < Len(dump[i])) => mu = i
    /\ mu # 0 => mu \in Tasks

C25_Witness ==
    \E i, j \in Tasks :
        /\ i # j
        /\ tpc[i] = "write" /\ wpos[i] = 1 /\ mu = i
        /\ tpc[j] = "lock"
        /\ \E k \in Tasks : tpc[k] \in {"query", "rows", "sendErr", "sendProgress"}

Finished(i) == tpc[i] \in {"exit", "done"}

ProgressSent == processed + Len(progressCh)

\* C26: a task that has sent has sent one value: the progress signals sent
\* are as many as the finished tasks that were skipped or dumped, the errors
\* sent as many as the finished tasks that failed, and no task finishes
\* without sending; once all tasks are done, signals plus errors is the number
\* of tables.
C26_OneSignalPerTask ==
    /\ ProgressSent = Cardinality({i \in Tasks : Finished(i) /\ ~Failed(i)})
    /\ Len(errLog) = Cardinality({i \in Tasks : Finished(i) /\ Failed(i)})
    /\ \A i \in Tasks : Finished(i) /\ Failed(i) => Contains(errLog, terr[i])
    /\ (\A i \in Tasks : tpc[i] = "done") => ProgressSent + Len(errLog) = Len(tables)

C26_Witness ==
    /\ \A i \in Tasks : tpc[i] = "done"
    /\ \E i \in Tasks : IsSkipped(skip, tables[i])
    /\ \E i \in Tasks : Failed(i)
    /\ ProgressSent = 2 /\ Len(errLog) = 1

\* C27: the error of a task is a data-dump error that names its table.
C27_ErrorsAreDataDumpErrors ==
    \A i \in Tasks : Failed(i) => terr[i].code = ErrDataDump /\ terr[i].table = tables[i]

----------------------------------------------------------------------------
(* DumpData: the channels *)

AllReturned == spawned = Len(tables) /\ \A i \in Tasks : tpc[i] = "done"

\* no task is blocked at a send, waits at a closed channel or has sent on one
SendsGoThrough ==
    /\ \A i \in Tasks :
           /\ tpc[i] = "sendErr" => Len(errChan) < Len(tables) /\ "errChan" \notin chClosed
           /\ tpc[i] = "sendProgress"
                  => Len(progressCh) < Len(tables) /\ "progressCh" \notin chClosed
           /\ tpc[i] # "panic"
    /\ Len(errChan) <= Len(tables) /\ Len(progressCh) <= Len(tables)

\* C28: a task at a send finds room in the channel and the channel open;
\* DumpData, once it starts its tasks, sees all of them return and then
\* returns itself, and the progress reporter that was started terminates.
C28_SendsNeverBlock ==
    /\ []SendsGoThrough
    /\ pc = "spawn" ~> AllReturned
    /\ AllReturned ~> pc = "dataDone"
    /\ (pc = "dataDone" /\ reporter = "running") ~> reporter = "done"

C28_Witness ==
    /\ pc = "dataDone"
    /\ reporter = "done"
    /\ processed = 1
    /\ Len(errLog) = 1
    /\ chClosed = {"progressCh", "errChan"}

----------------------------------------------------------------------------
(* sortTablesByDependencies: a parent named twice *)

----------------------------------------------------------------------------
(* dumpTableData: the INSERT statements of a block *)

\* C30: in the block of a table every INSERT head is followed at once by its
\* tuples, at least one, closed by a semicolon, and tuples occur nowhere else;
\* a table without rows has no INSERT head.
C30_NoEmptyInsert ==
    \A i \in Tasks :
        Dumped(i) =>
            /\ \A k \in 1..Len(dump[i]) :
                   /\ dump[i][k].kind = "INSERT INTO"
                          => /\ k < Len(dump[i])
                             /\ dump[i][k + 1].kind = "VALUES"
                             /\ Len(dump[i][k + 1].rows) >= 1
                             /\ dump[i][k + 1].closing = ";"
                   /\ dump[i][k].kind = "VALUES"
                          => k > 1 /\ dump[i][k - 1].kind = "INSERT INTO"
            /\ scanned[i] = 0 => SelectSeq(dump[i], IsInsertPiece) = <<>>
            /\ scanned[i] > 0 => SelectSeq(dump[i], IsInsertPiece) # <<>>

C30_Witness ==
    \E i \in Tasks :
        /\ Dumped(i)
        /\ scanned[i] = 2 * batch
        /\ Len(SelectSeq(dump[i], IsInsertPiece)) = 4
        /\ dump[i][Len(dump[i])].kind = "GO"

====
